---- MODULE Spec2Model ----
(***************************************************************************)
(* arnmatch: the build-time template compiler (codegen/codegen.py) and the *)
(* runtime matcher (src/arnmatch/__init__.py).                             *)
(*                                                                         *)
(* Strings are TLC strings; a character is a string of length 1.  A        *)
(* compiled regular expression is the sequence of elements that            *)
(* pattern_to_regex emits (escaped literal characters, named groups with   *)
(* their character class and quantifier, and the ".*" of a wildcard); the  *)
(* regex engine is modelled by ReMatch with Python's backtracking order.   *)
(***************************************************************************)
EXTENDS Integers, Sequences, FiniteSets, TLC

VARIABLES
    pc,            \* position of the generation run / runtime
    scraped,       \* the record list the scraper returned
    resources,     \* main's resources: the scraped, then the processed list
    sdk_mapping,   \* arn service -> list of SDK clients (build time)
    ARN_PATTERNS,  \* arn_patterns.py: service -> <<[regex, type_names]>>
    AWS_SDK_SERVICES,            \* arn_patterns.py: service -> clients
    AWS_SDK_RESOURCE_OVERRIDES,  \* arn_patterns.py: service -> <<prefix, client>>s
    arn,           \* argument of the last arnmatch call
    result         \* outcome of the last arnmatch call / the ARN under study

tables == <<ARN_PATTERNS, AWS_SDK_SERVICES, AWS_SDK_RESOURCE_OVERRIDES>>
vars == <<pc, scraped, resources, sdk_mapping, tables, arn, result>>

---------------------------------------------------------------------------
(* Bounds *)

MaxRecords == 2      \* length of the scraped record list
MaxPath    == 4      \* number of '/'-separated pieces in an identifier's resource
MaxAttrs   == 3      \* number of attributes of a directly constructed ARN
MaxDedup   == 3      \* length of the list handed to deduplicate
MaxList    == 3      \* length of a list the caller of arnmatch has changed
MaxCallers == 2      \* callers that run arnmatch at the same time
MaxIndex   == 2      \* length of the list handed to process alone
MaxBuild   == 2      \* scraped records of a run that can abort

---------------------------------------------------------------------------
(* Python string primitives *)

Ch(s, i) == SubSeq(s, i, i)

Min(S) == CHOOSE x \in S : \A y \in S : x <= y
Max(S) == CHOOSE x \in S : \A y \in S : x >= y

\* str.startswith / str.endswith
StartsWith(s, p) == Len(p) <= Len(s) /\ SubSeq(s, 1, Len(p)) = p
EndsWith(s, p) == Len(p) <= Len(s) /\ SubSeq(s, Len(s) - Len(p) + 1, Len(s)) = p

\* str.find(sub, i): first position >= i where sub occurs, 0 when absent
RECURSIVE FindFrom(_, _, _)
FindFrom(s, sub, i) ==
    IF i + Len(sub) - 1 > Len(s) THEN 0
    ELSE IF SubSeq(s, i, i + Len(sub) - 1) = sub THEN i
    ELSE FindFrom(s, sub, i + 1)

\* str.split(sep, maxsplit); maxsplit = -1 splits at every occurrence
RECURSIVE StrSplit(_, _, _)
StrSplit(s, sep, maxsplit) ==
    LET i == FindFrom(s, sep, 1) IN
    IF maxsplit = 0 \/ i = 0 THEN <<s>>
    ELSE <<SubSeq(s, 1, i - 1)>>
         \o StrSplit(SubSeq(s, i + Len(sep), Len(s)), sep, maxsplit - 1)

\* str.replace(old, new) for a one-character old
RECURSIVE StrReplace(_, _, _)
StrReplace(s, old, new) ==
    IF s = "" THEN ""
    ELSE (IF Ch(s, 1) = old THEN new ELSE Ch(s, 1))
         \o StrReplace(Tail(s), old, new)

\* Code point order of the characters that occur (Python compares strings
\* by code point).
Ascii == "\n !#$%&()*+,-./0123456789:;<=>?@ABCDEFGHIJKLMNOPQRSTUVWXYZ[]^_abcdefghijklmnopqrstuvwxyz{|}~"
Ord(c) == CHOOSE i \in 1..Len(Ascii) : Ch(Ascii, i) = c

\* str < str
RECURSIVE StrLess(_, _)
StrLess(a, b) ==
    IF b = "" THEN FALSE
    ELSE IF a = "" THEN TRUE
    ELSE IF Ch(a, 1) = Ch(b, 1) THEN StrLess(Tail(a), Tail(b))
    ELSE Ord(Ch(a, 1)) < Ord(Ch(b, 1))

\* list[str] < list[str]
RECURSIVE ListLess(_, _)
ListLess(a, b) ==
    IF b = <<>> THEN FALSE
    ELSE IF a = <<>> THEN TRUE
    ELSE IF Head(a) = Head(b) THEN ListLess(Tail(a), Tail(b))
    ELSE StrLess(Head(a), Head(b))

---------------------------------------------------------------------------
(* Templates: the ${Name} scanner shared by the compiler and the ranker *)

\* One match of the regex \$\{([^}]+)\} starting at position i: the position
\* of its closing brace, or 0 when the regex does not match at i.
VarEnd(s, i) ==
    IF i + 1 > Len(s) \/ SubSeq(s, i, i + 1) # "${" THEN 0
    ELSE LET j == FindFrom(s, "}", i + 2) IN IF j > i + 2 THEN j ELSE 0

\* Left-to-right, non-overlapping matches of the variable regex over s from
\* position i: the pieces of s, a piece being a variable (text = its name) or
\* a maximal run of other text.  lit is the text run collected so far.
RECURSIVE VarScan(_, _, _)
VarScan(s, i, lit) ==
    LET flush == IF lit = "" THEN <<>> ELSE <<[var |-> FALSE, text |-> lit]>> IN
    IF i > Len(s) THEN flush
    ELSE LET e == VarEnd(s, i) IN
         IF e = 0 THEN VarScan(s, i + 1, lit \o Ch(s, i))
         ELSE flush \o <<[var |-> TRUE, text |-> SubSeq(s, i + 2, e - 1)]>>
              \o VarScan(s, e + 1, "")

---------------------------------------------------------------------------
(* CodeGenerator.pattern_to_regex *)

\* the account placeholder compiled to the word class of the partition
PLACEHOLDER_PATTERNS_WideAccount ==
    [Partition |-> "[\\w-]+", Region |-> "[\\w-]*", Account |-> "[\\w-]+"]

PLACEHOLDER_PATTERNS ==
    [Partition |-> "[\\w-]+", Region |-> "[\\w-]*", Account |-> "\\d{12}"]

\* The characters re.escape puts a backslash before.
SpecialChars == "()[]{}?*+-|^$\\.&~# \t\n\r\f"

\* re.escape(text), followed by result.replace("\\-", "-")
RECURSIVE EscapeText(_)
EscapeText(t) ==
    IF t = "" THEN ""
    ELSE (IF FindFrom(SpecialChars, Ch(t, 1), 1) # 0 /\ Ch(t, 1) # "-"
          THEN "\\" \o Ch(t, 1) ELSE Ch(t, 1))
         \o EscapeText(Tail(t))

\* the '*' compiled to a run of word characters: it cannot span a '/'
RECURSIVE TextToRegex_WordWildcard(_)
TextToRegex_WordWildcard(t) ==
    LET i == FindFrom(t, "*", 1)
        lit(x) == IF x = "" THEN <<>>
                  ELSE <<[k |-> "lit", name |-> "", pat |-> EscapeText(x)]>>
    IN IF i = 0 THEN lit(t)
       ELSE lit(SubSeq(t, 1, i - 1))
            \o <<[k |-> "any", name |-> "", pat |-> "[\\w-]*"]>>
            \o TextToRegex_WordWildcard(SubSeq(t, i + 1, Len(t)))

\* The elements a piece of literal template text contributes: ".*" for each
\* '*', and the escaped text between them.
RECURSIVE TextToRegex(_)
TextToRegex(t) ==
    LET i == FindFrom(t, "*", 1)
        lit(x) == IF x = "" THEN <<>>
                  ELSE <<[k |-> "lit", name |-> "", pat |-> EscapeText(x)]>>
    IN IF i = 0 THEN lit(t)
       ELSE lit(SubSeq(t, 1, i - 1))
            \o <<[k |-> "any", name |-> "", pat |-> ".*"]>>
            \o TextToRegex(SubSeq(t, i + 1, Len(t)))

\* every placeholder compiled to the word class of the partition
GroupOf_WordClass(name) == [k |-> "group", name |-> name, pat |-> "[\\w-]+"]

\* The named group of placeholder name.
GroupOf(name) ==
    [k |-> "group", name |-> name,
     pat |-> IF name \in DOMAIN PLACEHOLDER_PATTERNS
             THEN PLACEHOLDER_PATTERNS[name] ELSE ".+?"]

RECURSIVE PiecesToRegex(_)
PiecesToRegex(ps) ==
    IF ps = <<>> THEN <<>>
    ELSE (IF Head(ps).var THEN <<GroupOf(Head(ps).text)>>
          ELSE TextToRegex(Head(ps).text))
         \o PiecesToRegex(Tail(ps))

\* The regex between '^' and '$', as its sequence of elements.
pattern_to_regex(arn_pattern) == PiecesToRegex(VarScan(arn_pattern, 1, ""))

---------------------------------------------------------------------------
(* The regex engine: regex.match(arn) and match.groupdict() *)

WordChars == "abcdefghijklmnopqrstuvwxyzABCDEFGHIJKLMNOPQRSTUVWXYZ0123456789_"
Digits == "0123456789"

\* c is in the character class of the quantified element with pattern pat
InClass(c, pat) ==
    CASE pat = "\\d{12}" -> FindFrom(Digits, c, 1) # 0
      [] pat \in {"[\\w-]+", "[\\w-]*"} -> c = "-" \/ FindFrom(WordChars, c, 1) # 0
      [] OTHER -> c # "\n"

\* least and greatest number of repetitions, and laziness, of pattern pat
MinRep(pat) == CASE pat = "\\d{12}" -> 12
                 [] pat \in {"[\\w-]+", ".+?"} -> 1
                 [] OTHER -> 0
Lazy(pat) == pat = ".+?"

\* number of consecutive characters of s from position j that are in the
\* class of pat, at most lim
RECURSIVE MaxRun(_, _, _, _)
MaxRun(s, j, pat, lim) ==
    IF lim = 0 \/ j > Len(s) \/ ~InClass(Ch(s, j), pat) THEN 0
    ELSE 1 + MaxRun(s, j + 1, pat, lim - 1)

NoMatch == [ok |-> FALSE, groups |-> <<>>]

\* the text an escaped literal of the regex source matches
RECURSIVE Unescape(_)
Unescape(p) ==
    IF p = "" THEN ""
    ELSE IF Ch(p, 1) = "\\" THEN Ch(p, 2) \o Unescape(SubSeq(p, 3, Len(p)))
    ELSE Ch(p, 1) \o Unescape(Tail(p))

\* a pattern without the closing '$'
AtEnd_Unanchored(s, j) == j <= Len(s) + 1

\* '$' matches at the end of the string and before a final newline
AtEnd(s, j) == j = Len(s) + 1 \/ (j = Len(s) /\ Ch(s, j) = "\n")

\* Match elements k.. of re against s from position j, anchored at the end:
\* the first success in backtracking order, with the captured groups in
\* group order.  TryReps tries n repetitions of the quantified element k,
\* then n + step, ... within lo..hi: a greedy element starts at its longest
\* repetition and steps down, a lazy one starts at its shortest and steps up.
RECURSIVE ReMatch(_, _, _, _), TryReps(_, _, _, _, _, _, _, _)
ReMatch(re, k, s, j) ==
    IF k > Len(re)
    THEN (IF AtEnd(s, j) THEN [ok |-> TRUE, groups |-> <<>>] ELSE NoMatch)
    ELSE LET e == re[k] IN
         IF e.k = "lit"
         THEN LET text == Unescape(e.pat) IN
              IF j + Len(text) - 1 <= Len(s) /\ SubSeq(s, j, j + Len(text) - 1) = text
              THEN ReMatch(re, k + 1, s, j + Len(text)) ELSE NoMatch
         ELSE LET lo == MinRep(e.pat)
                  hi == MaxRun(s, j, e.pat,
                               IF e.pat = "\\d{12}" THEN 12 ELSE Len(s))
              IN IF Lazy(e.pat) THEN TryReps(re, k, s, j, lo, lo, hi, 1)
                 ELSE TryReps(re, k, s, j, hi, lo, hi, -1)

TryReps(re, k, s, j, n, lo, hi, step) ==
    IF n < lo \/ n > hi THEN NoMatch
    ELSE LET r == ReMatch(re, k + 1, s, j + n) IN
         IF r.ok
         THEN [ok |-> TRUE,
               groups |->
                   (IF re[k].k = "group"
                    THEN <<[name |-> re[k].name, value |-> SubSeq(s, j, j + n - 1)]>>
                    ELSE <<>>) \o r.groups]
         ELSE TryReps(re, k, s, j, n + step, lo, hi, step)

\* the groups handed out last first
Match_Reversed(regex, s) ==
    LET m == ReMatch(regex, 1, s, 1) IN
    [ok |-> m.ok,
     groups |-> [i \in 1..Len(m.groups) |-> m.groups[Len(m.groups) - i + 1]]]

\* regex.match(arn) for the compiled pattern '^' regex '$'
Match(regex, s) == ReMatch(regex, 1, s, 1)

---------------------------------------------------------------------------
(* ARNIndexer: overrides, filter, deduplicate, includes, specificity sort *)

\* A template record; arn_service is "" until process sets it.
Rec(service, resource_type, arn_pattern) ==
    [service |-> service, resource_type |-> resource_type,
     arn_pattern |-> arn_pattern, arn_service |-> ""]

\* The entries of the class tables that concern the services of the model.
EXCLUDED_ARNS ==
    {"arn:${Partition}:${Vendor}:${Region}:*:${ResourceType}:${RecoveryPointId}"}

EXCLUDED_RESOURCE_TYPES == {<<"ebs", "snapshot">>}

PATTERN_OVERRIDES ==
    [k \in {<<"artifact", "agreement">>} |->
        "arn:${Partition}:artifact:::agreement/${AgreementId}"]

PATTERN_INCLUDES ==
    <<<<"inspector",
        "arn:${Partition}:inspector:${Region}:${Account}:target/${TargetId}/template/${TemplateId}",
        "target-template">>>>

extract_arn_service(arn_pattern) ==
    LET parts == StrSplit(arn_pattern, ":", -1) IN
    IF Len(parts) >= 3 THEN parts[3] ELSE ""

\* the records of rs whose arn_pattern is p, in order
GroupOfArn(rs, p) == SelectSeq(rs, LAMBDA r : r.arn_pattern = p)

\* deduplicate: one record per arn_pattern, in order of first occurrence
RECURSIVE Dedup(_, _)
Dedup(rs, i) ==
    IF i > Len(rs) THEN <<>>
    ELSE LET r == rs[i]
             first == \A j \in 1..(i - 1) : rs[j].arn_pattern # r.arn_pattern
             group == GroupOfArn(rs, r.arn_pattern)
             matches == SelectSeq(group, LAMBDA g : g.arn_service = g.service)
         IN (IF ~first THEN <<>>
             ELSE IF Len(group) = 1 THEN <<group[1]>>
             ELSE IF matches # <<>> THEN <<matches[1]>> ELSE <<group[1]>>)
            \o Dedup(rs, i + 1)

\* deduplicate that keeps the first record of every group
deduplicate_KeepFirst(rs) ==
    LET idx == {n \in 1..Len(rs) :
                    \A j \in 1..(n - 1) : rs[j].arn_pattern # rs[n].arn_pattern}
    IN [k \in 1..Cardinality(idx) |->
            rs[CHOOSE n \in idx : Cardinality({m \in idx : m < n}) = k - 1]]

deduplicate(rs) == Dedup(rs, 1)

\* normalize_for_sort: every variable becomes "~", every '*' becomes "~~"
RECURSIVE NormPieces(_)
NormPieces(ps) ==
    IF ps = <<>> THEN ""
    ELSE (IF Head(ps).var THEN "~" ELSE StrReplace(Head(ps).text, "*", "~~"))
         \o NormPieces(Tail(ps))

normalize_for_sort(value) == NormPieces(VarScan(value, 1, ""))

\* var_pattern.split(part) without its empty strings
RECURSIVE PieceTexts(_)
PieceTexts(ps) ==
    IF ps = <<>> THEN <<>>
    ELSE <<IF Head(ps).var THEN "${" \o Head(ps).text \o "}" ELSE Head(ps).text>>
         \o PieceTexts(Tail(ps))

\* [s1 for s0 in parts for s1 in s0.split(sep)]
RECURSIVE SplitEach(_, _)
SplitEach(parts, sep) ==
    IF parts = <<>> THEN <<>>
    ELSE StrSplit(Head(parts), sep, -1) \o SplitEach(Tail(parts), sep)

\* segments.extend([s for s in var_pattern.split(part) if s]) for every part
RECURSIVE SplitVars(_)
SplitVars(parts) ==
    IF parts = <<>> THEN <<>>
    ELSE PieceTexts(VarScan(Head(parts), 1, "")) \o SplitVars(Tail(parts))

\* parse_segments: split on '/', then on ':', then around the variables
parse_segments(resource) ==
    SplitVars(SplitEach(StrSplit(resource, "/", -1), ":"))

\* sort_key with the segment count not negated: fewer segments first
sort_key_FewerFirst(r) ==
    LET parts == StrSplit(r.arn_pattern, ":", 5)
        field(n) == IF Len(parts) >= n THEN parts[n] ELSE ""
        segments == parse_segments(field(6))
    IN [service |-> normalize_for_sort(field(3)),
        region |-> normalize_for_sort(field(4)),
        account |-> normalize_for_sort(field(5)),
        neg_count |-> Len(segments),
        segments |-> [i \in 1..Len(segments) |-> normalize_for_sort(segments[i])]]

sort_key(r) ==
    LET parts == StrSplit(r.arn_pattern, ":", 5)
        field(n) == IF Len(parts) >= n THEN parts[n] ELSE ""
        segments == parse_segments(field(6))
    IN [service |-> normalize_for_sort(field(3)),
        region |-> normalize_for_sort(field(4)),
        account |-> normalize_for_sort(field(5)),
        neg_count |-> 0 - Len(segments),
        segments |-> [i \in 1..Len(segments) |-> normalize_for_sort(segments[i])]]

\* comparison of two sort keys that looks at the segment count before the
\* region and the account
KeyLess_CountFirst(a, b) ==
    IF a.service # b.service THEN StrLess(a.service, b.service)
    ELSE IF a.neg_count # b.neg_count THEN a.neg_count < b.neg_count
    ELSE IF a.region # b.region THEN StrLess(a.region, b.region)
    ELSE IF a.account # b.account THEN StrLess(a.account, b.account)
    ELSE ListLess(a.segments, b.segments)

\* comparison of two sort keys that stops at the segment count
KeyLess_NoSegments(a, b) ==
    IF a.service # b.service THEN StrLess(a.service, b.service)
    ELSE IF a.region # b.region THEN StrLess(a.region, b.region)
    ELSE IF a.account # b.account THEN StrLess(a.account, b.account)
    ELSE a.neg_count < b.neg_count

\* tuple comparison of two sort keys
KeyLess(a, b) ==
    IF a.service # b.service THEN StrLess(a.service, b.service)
    ELSE IF a.region # b.region THEN StrLess(a.region, b.region)
    ELSE IF a.account # b.account THEN StrLess(a.account, b.account)
    ELSE IF a.neg_count # b.neg_count THEN a.neg_count < b.neg_count
    ELSE ListLess(a.segments, b.segments)

\* the insertion of a sort that ignores the key: r goes to the front
InsertByKey_Front(sorted, r) == <<r>> \o sorted

\* sorted(resources, key=sort_key): stable
RECURSIVE InsertByKey(_, _)
InsertByKey(sorted, r) ==
    IF sorted = <<>> THEN <<r>>
    ELSE IF KeyLess(sort_key(r), sort_key(Head(sorted))) THEN <<r>> \o sorted
    ELSE <<Head(sorted)>> \o InsertByKey(Tail(sorted), r)

\* the list left in input order
sort_by_specificity_Unsorted(rs) == rs

RECURSIVE sort_by_specificity(_)
sort_by_specificity(rs) ==
    IF rs = <<>> THEN <<>>
    ELSE InsertByKey(sort_by_specificity(SubSeq(rs, 1, Len(rs) - 1)), rs[Len(rs)])

\* ARNIndexer.process
process(rs) ==
    LET overridden ==
            [i \in 1..Len(rs) |->
                LET r == rs[i]
                    key == <<r.service, r.resource_type>>
                IN [r EXCEPT !.arn_service = extract_arn_service(r.arn_pattern),
                             !.arn_pattern = IF key \in DOMAIN PATTERN_OVERRIDES
                                             THEN PATTERN_OVERRIDES[key] ELSE @]]
        filtered ==
            SelectSeq(overridden,
                      LAMBDA r : r.arn_pattern \notin EXCLUDED_ARNS
                                 /\ <<r.service, r.resource_type>> \notin EXCLUDED_RESOURCE_TYPES)
        included ==
            [i \in 1..Len(PATTERN_INCLUDES) |->
                [service |-> PATTERN_INCLUDES[i][1],
                 arn_service |-> PATTERN_INCLUDES[i][1],
                 resource_type |-> PATTERN_INCLUDES[i][3],
                 arn_pattern |-> PATTERN_INCLUDES[i][2]]]
    IN sort_by_specificity(deduplicate(filtered) \o included)

---------------------------------------------------------------------------
(* CodeGenerator.generate and the client tables *)

TYPE_ALIASES ==
    [k \in {<<"elasticloadbalancing", "loadbalancer/app/">>,
            <<"inspector", "target-template">>} |->
        IF k[1] = "inspector" THEN <<"target/template">> ELSE <<"loadbalancer/app">>]

get_type_names(service, resource_type) ==
    <<resource_type>>
    \o (IF <<service, resource_type>> \in DOMAIN TYPE_ALIASES
        THEN TYPE_ALIASES[<<service, resource_type>>] ELSE <<>>)

\* by_service of generate, as written to and loaded from arn_patterns.py
generate(rs) ==
    [svc \in {rs[i].arn_service : i \in 1..Len(rs)} |->
        LET mine == SelectSeq(rs, LAMBDA r : r.arn_service = svc) IN
        [i \in 1..Len(mine) |->
            [regex |-> pattern_to_regex(mine[i].arn_pattern),
             type_names |-> get_type_names(svc, mine[i].resource_type)]]]

---------------------------------------------------------------------------
(* SDKServiceIndexer: arn service -> SDK clients *)

\* the entries of the class tables that concern the services of the model
OVERRIDES == [k \in {"s3express"} |-> <<"s3">>]
EXCLUDES_DISCONTINUED == {"a4b"}

SDK_RESOURCE_OVERRIDES ==
    [svc \in {"elasticloadbalancing", "s3"} |->
        IF svc = "elasticloadbalancing"
        THEN << <<"loadbalancer/app", "elbv2">>,
                <<"loadbalancer/net", "elbv2">>,
                <<"targetgroup", "elbv2">>,
                <<"loadbalancer", "elb">> >>
        ELSE << <<"accesspoint", "s3control">>,
                <<"accesspointobject", "s3control">>,
                <<"bucket", "s3">>,
                <<"object", "s3">> >>]

\* metadata_load: signingName and endpointPrefix of the installed clients
BotocoreMetadata ==
    [c \in {"elb", "elbv2", "s3", "s3control", "inspector", "logs"} |->
        CASE c \in {"elb", "elbv2"} ->
                [signingName |-> "elasticloadbalancing", endpointPrefix |-> "elasticloadbalancing"]
          [] c = "s3" -> [signingName |-> "s3", endpointPrefix |-> "s3"]
          [] c = "s3control" -> [signingName |-> "s3", endpointPrefix |-> "s3-control"]
          [] c = "logs" -> [signingName |-> "logs", endpointPrefix |-> "logs"]
          [] OTHER -> [signingName |-> "inspector", endpointPrefix |-> "inspector"]]

metadata_match(arn_service, exclude) ==
    {c \in DOMAIN BotocoreMetadata \ exclude :
        \/ BotocoreMetadata[c].signingName = arn_service
        \/ BotocoreMetadata[c].endpointPrefix = arn_service}

\* sorted(set of str)
RECURSIVE SortedStrs(_)
SortedStrs(S) ==
    IF S = {} THEN <<>>
    ELSE LET m == CHOOSE x \in S : \A y \in S \ {x} : StrLess(x, y)
         IN <<m>> \o SortedStrs(S \ {m})

\* the clients of one arn service; found is FALSE where process raises
sdk_clients_of(arn_service) ==
    IF arn_service \in DOMAIN OVERRIDES
    THEN [found |-> TRUE, clients |-> OVERRIDES[arn_service]]
    ELSE IF arn_service \in EXCLUDES_DISCONTINUED
    THEN [found |-> TRUE, clients |-> <<>>]
    ELSE IF arn_service \in DOMAIN BotocoreMetadata
    THEN [found |-> TRUE,
          clients |-> <<arn_service>>
                      \o SortedStrs(metadata_match(arn_service, {arn_service}))]
    ELSE [found |-> metadata_match(arn_service, {}) # {},
          clients |-> SortedStrs(metadata_match(arn_service, {}))]

sdk_process(arn_services) == [svc \in arn_services |-> sdk_clients_of(svc).clients]

\* a test for a plain prefix, without the '/'
OverrideMatches_PlainPrefix(resource_type, pattern) == StartsWith(resource_type, pattern)

\* resource_type == pattern or resource_type.startswith(pattern + "/")
OverrideMatches(resource_type, pattern) ==
    resource_type = pattern \/ StartsWith(resource_type, pattern \o "/")

\* validate_sdk_overrides: the (service, resource_type) pairs it reports
MissingOverrides(rs, mapping, overrides) ==
    {<<rs[i].arn_service, rs[i].resource_type>> : i \in
        {i \in 1..Len(rs) :
            /\ rs[i].arn_service \in DOMAIN mapping
            /\ Len(mapping[rs[i].arn_service]) > 1
            /\ LET ov == IF rs[i].arn_service \in DOMAIN overrides
                         THEN overrides[rs[i].arn_service] ELSE <<>>
               IN ~\E j \in 1..Len(ov) : OverrideMatches(rs[i].resource_type, ov[j][1])}}

---------------------------------------------------------------------------
(* Loading arn_patterns.py: every pattern is handed to re.compile *)

\* a group name re.compile accepts: a Python identifier
ValidGroupName(n) ==
    /\ n # ""
    /\ FindFrom(Digits, Ch(n, 1), 1) = 0
    /\ \A i \in 1..Len(n) : FindFrom(WordChars, Ch(n, i), 1) # 0

\* re.compile(regex) returns: it raises re.error for a group name that is
\* not an identifier and for a group name that is defined twice
Compiles(regex) ==
    LET G == {k \in 1..Len(regex) : regex[k].k = "group"} IN
    /\ \A k \in G : ValidGroupName(regex[k].name)
    /\ \A k, m \in G : regex[k].name = regex[m].name => k = m

\* from .arn_patterns import ARN_PATTERNS, ... succeeds
Importable(patterns) ==
    {svc \in DOMAIN patterns :
        \E i \in 1..Len(patterns[svc]) : ~Compiles(patterns[svc][i].regex)} = {}

---------------------------------------------------------------------------
(* Runtime: arnmatch and the ARN properties *)

STANDARD_GROUPS == {"Partition", "Region", "Account"}

NotCached == <<>>
EmptyCache == [resource_id |-> NotCached, resource_name |-> NotCached,
               aws_sdk_services |-> NotCached, aws_sdk_service |-> NotCached]

\* Optional[str]
None == [none |-> TRUE, client |-> ""]
Some(c) == [none |-> FALSE, client |-> c]

\* No call made yet
NoResult ==
    [status |-> "none", error |-> "", message |-> "",
     aws_partition |-> "", aws_service |-> "", aws_region |-> "",
     aws_account |-> "", resource_type |-> "", resource_types |-> <<>>,
     attributes |-> <<>>, cache |-> EmptyCache]

\* raise ARNError(message)
Raise(message) ==
    [NoResult EXCEPT !.status = "error", !.error = "ARNError", !.message = message]

\* ARN(...)
MakeARN(partition, service, region, account, type_names, attributes) ==
    [NoResult EXCEPT !.status = "ok",
                     !.aws_partition = partition, !.aws_service = service,
                     !.aws_region = region, !.aws_account = account,
                     !.resource_type = type_names[1],
                     !.resource_types = type_names,
                     !.attributes = attributes]

\* split without the limit of 5
SplitArn_NoLimit(a) == StrSplit(a, ":", -1)

\* parts = arn.split(":", 5)
SplitArn(a) == StrSplit(a, ":", 5)

\* the loop without its return: the last pattern from i that matches
FirstMatch_Last(patterns, i, a) ==
    LET M == {n \in i..Len(patterns) : Match(patterns[n].regex, a).ok} IN
    IF M = {} THEN 0 ELSE Max(M)

\* the loop of arnmatch: index of the first pattern from i that matches, or 0
RECURSIVE FirstMatch(_, _, _)
FirstMatch(patterns, i, a) ==
    IF i > Len(patterns) THEN 0
    ELSE IF Match(patterns[i].regex, a).ok THEN i
    ELSE FirstMatch(patterns, i + 1, a)

\* arnmatch that reads the patterns with a default: an unregistered service
\* has no patterns
arnmatch_NoServiceCheck(a) ==
    LET parts == SplitArn(a) IN
    IF Len(parts) # 6 \/ parts[1] # "arn"
    THEN Raise("Invalid ARN format: " \o a)
    ELSE LET service == parts[3]
             patterns == IF service \in DOMAIN ARN_PATTERNS
                         THEN ARN_PATTERNS[service] ELSE <<>>
             i == FirstMatch(patterns, 1, a)
         IN IF i = 0 THEN Raise("No pattern matched ARN: " \o a)
            ELSE MakeARN(parts[2], service, parts[4], parts[5],
                         patterns[i].type_names, Match(patterns[i].regex, a).groups)

\* arnmatch that leaves the standard groups out of the attributes
arnmatch_ResourceGroupsOnly(a) ==
    LET parts == SplitArn(a) IN
    IF Len(parts) # 6 \/ parts[1] # "arn"
    THEN Raise("Invalid ARN format: " \o a)
    ELSE LET service == parts[3] IN
         IF service \notin DOMAIN ARN_PATTERNS
         THEN Raise("Unknown service: " \o service)
         ELSE LET i == FirstMatch(ARN_PATTERNS[service], 1, a) IN
              IF i = 0 THEN Raise("No pattern matched ARN: " \o a)
              ELSE MakeARN(parts[2], service, parts[4], parts[5],
                           ARN_PATTERNS[service][i].type_names,
                           SelectSeq(Match(ARN_PATTERNS[service][i].regex, a).groups,
                                     LAMBDA g : g.name \notin STANDARD_GROUPS))

\* arnmatch that returns an ARN of unknown type when no pattern matches
arnmatch_DefaultResult(a) ==
    LET parts == SplitArn(a) IN
    IF Len(parts) # 6 \/ parts[1] # "arn"
    THEN Raise("Invalid ARN format: " \o a)
    ELSE LET service == parts[3] IN
         IF service \notin DOMAIN ARN_PATTERNS
         THEN Raise("Unknown service: " \o service)
         ELSE LET i == FirstMatch(ARN_PATTERNS[service], 1, a) IN
              IF i = 0
              THEN MakeARN(parts[2], service, parts[4], parts[5], <<"unknown">>, <<>>)
              ELSE MakeARN(parts[2], service, parts[4], parts[5],
                           ARN_PATTERNS[service][i].type_names,
                           Match(ARN_PATTERNS[service][i].regex, a).groups)

arnmatch(a) ==
    LET parts == SplitArn(a) IN
    IF Len(parts) # 6 \/ parts[1] # "arn"
    THEN Raise("Invalid ARN format: " \o a)
    ELSE LET partition == parts[2]
             service == parts[3]
             region == parts[4]
             account == parts[5]
         IN IF service \notin DOMAIN ARN_PATTERNS
            THEN Raise("Unknown service: " \o service)
            ELSE LET i == FirstMatch(ARN_PATTERNS[service], 1, a) IN
                 IF i = 0 THEN Raise("No pattern matched ARN: " \o a)
                 ELSE MakeARN(partition, service, region, account,
                              ARN_PATTERNS[service][i].type_names,
                              Match(ARN_PATTERNS[service][i].regex, a).groups)

\* [(k, v) for k, v in attributes.items() if k not in STANDARD_GROUPS]
resource_groups(self) ==
    SelectSeq(self.attributes, LAMBDA g : g.name \notin STANDARD_GROUPS)

\* for key, value in reversed(groups): if key.endswith(suffix): position
RECURSIVE LastEndingWith(_, _, _)
LastEndingWith(groups, i, suffix) ==
    IF i = 0 THEN 0
    ELSE IF EndsWith(groups[i].name, suffix) THEN i
    ELSE LastEndingWith(groups, i - 1, suffix)

\* resource_id that looks for a *Name group before a *Id group
resource_id_NameFirst(self) ==
    LET groups == resource_groups(self)
        byId == LastEndingWith(groups, Len(groups), "Id")
        byName == LastEndingWith(groups, Len(groups), "Name")
    IN IF byName # 0 THEN groups[byName].value
       ELSE IF byId # 0 THEN groups[byId].value
       ELSE IF groups # <<>> THEN groups[Len(groups)].value
       ELSE ""

resource_id(self) ==
    LET groups == resource_groups(self)
        byId == LastEndingWith(groups, Len(groups), "Id")
        byName == LastEndingWith(groups, Len(groups), "Name")
    IN IF byId # 0 THEN groups[byId].value
       ELSE IF byName # 0 THEN groups[byName].value
       ELSE IF groups # <<>> THEN groups[Len(groups)].value
       ELSE ""

\* resource_name that scans forward: the first *Name group
resource_name_FirstName(self) ==
    LET groups == resource_groups(self)
        names == {i \in 1..Len(groups) : EndsWith(groups[i].name, "Name")}
    IN IF names # {} THEN groups[Min(names)].value ELSE resource_id(self)

\* byName = 0 is the case that reads self.resource_id
resource_name(self) ==
    LET groups == resource_groups(self)
        byName == LastEndingWith(groups, Len(groups), "Name")
    IN IF byName # 0 THEN groups[byName].value ELSE resource_id(self)

aws_sdk_services(self, services) ==
    IF self.aws_service \in DOMAIN services THEN services[self.aws_service] ELSE <<>>

\* the override loop without its return: the last matching entry from i
FirstOverride_Last(ov, i, resource_type) ==
    LET M == {n \in i..Len(ov) : OverrideMatches(resource_type, ov[n][1])} IN
    IF M = {} THEN 0 ELSE Max(M)

\* the override loop: position of the first matching entry from i, or 0
RECURSIVE FirstOverride(_, _, _)
FirstOverride(ov, i, resource_type) ==
    IF i > Len(ov) THEN 0
    ELSE IF OverrideMatches(resource_type, ov[i][1]) THEN i
    ELSE FirstOverride(ov, i + 1, resource_type)

\* aws_sdk_service that falls back to the first client of the service
aws_sdk_service_FirstClient(self, services, overrides) ==
    LET sdk_clients == aws_sdk_services(self, services) IN
    IF sdk_clients = <<>> THEN None
    ELSE IF Len(sdk_clients) = 1 THEN Some(sdk_clients[1])
    ELSE IF self.aws_service \in DOMAIN overrides
    THEN LET ov == overrides[self.aws_service]
             i == FirstOverride(ov, 1, self.resource_type)
         IN IF i # 0 THEN Some(ov[i][2]) ELSE Some(sdk_clients[1])
    ELSE Some(sdk_clients[1])

aws_sdk_service(self, services, overrides) ==
    LET sdk_clients == aws_sdk_services(self, services) IN
    IF sdk_clients = <<>> THEN None
    ELSE IF Len(sdk_clients) = 1 THEN Some(sdk_clients[1])
    ELSE IF self.aws_service \in DOMAIN overrides
    THEN LET ov == overrides[self.aws_service]
             i == FirstOverride(ov, 1, self.resource_type)
         IN IF i # 0 THEN Some(ov[i][2]) ELSE None
    ELSE None

---------------------------------------------------------------------------
(* Inputs *)

\* Rows of the documentation the scraper returns
ELB_APP == Rec("elasticloadbalancing", "loadbalancer/app/",
    "arn:${Partition}:elasticloadbalancing:${Region}:${Account}:loadbalancer/app/${LoadBalancerName}/${LoadBalancerId}")
ELB_CLASSIC == Rec("elasticloadbalancing", "loadbalancer",
    "arn:${Partition}:elasticloadbalancing:${Region}:${Account}:loadbalancer/${LoadBalancerName}")
S3_BUCKET == Rec("s3", "bucket", "arn:${Partition}:s3:::${BucketName}")
S3_ACCESSPOINT == Rec("s3", "accesspoint",
    "arn:${Partition}:s3:${Region}:${Account}:accesspoint/${AccessPointName}")

Catalog == {ELB_APP, ELB_CLASSIC, S3_BUCKET, S3_ACCESSPOINT}

\* the record lists of at most MaxRecords distinct rows
InputLists ==
    UNION {{q \in [1..n -> Catalog] : \A i, j \in 1..n : i # j => q[i] # q[j]}
           : n \in 0..MaxRecords}

\* Resource parts of identifiers: at most MaxPath pieces joined by '/'
Atoms == {"loadbalancer", "app"}

RECURSIVE Paths(_)
Paths(n) ==
    IF n = 1 THEN Atoms
    ELSE {p \o "/" \o a : p \in Paths(n - 1), a \in Atoms}

AllPaths == UNION {Paths(n) : n \in 1..MaxPath}

ELB_HEAD == "arn:aws:elasticloadbalancing:us-east-1:012345678901:"
S3_HEAD == "arn:aws:s3:::"

\* a bucket name takes any resource part: two pieces show the '/' case
Identifiers ==
    {ELB_HEAD \o p : p \in AllPaths} \cup {S3_HEAD \o p : p \in Paths(1) \cup Paths(2)}
    \cup {ELB_HEAD \o "loadbalancer/app/n:1/i-7",
          ELB_HEAD \o "loadbalancer/n:1",
          S3_HEAD \o "bucket-01/a:b",
          "arn:aws:s3:us-east-1:012345678901:accesspoint/ap1",
          "arn:aws:s3:::example-bucket-01",
          "arn:aws:s3:::example-bucket-01\n",
          "arn:aws-cn:s3:::bucket-01/key.txt",
          "arn:aws:s3:::",
          "arn::s3:::bucket-01",
          "arn:aws:inspector:us-east-1:012345678901:target/t1/template/t2",
          "arn:aws:inspector:us-east-1:012345678901:target/t1",
          "arn:aws:elasticloadbalancing::012345678901:loadbalancer/lb1",
          "arn:aws:elasticloadbalancing:us-east-1:1:loadbalancer/lb1",
          "arn:unknown:foo:us-east-1:1:x",
          "urn:unknown:foo:us-east-1:1:x",
          "urn:aws:s3:::bucket-01",
          "ARN:aws:s3:::bucket-01",
          "arn:aws:s3::",
          "arn:aws:s3",
          "arn:foo",
          "arn",
          ""}

---------------------------------------------------------------------------
(* The generation run (codegen main) and the runtime calls *)

Init ==
    /\ pc = "scraped"
    /\ scraped \in InputLists
    /\ resources = scraped
    /\ sdk_mapping = <<>>
    /\ ARN_PATTERNS = <<>>
    /\ AWS_SDK_SERVICES = <<>>
    /\ AWS_SDK_RESOURCE_OVERRIDES = <<>>
    /\ arn = ""
    /\ result = NoResult

\* resources = indexer.process(resources)
Process ==
    /\ pc = "scraped"
    /\ resources' = process(resources)
    /\ pc' = "processed"
    /\ UNCHANGED <<scraped, sdk_mapping, tables, arn, result>>

\* sdk_mapping = sdk_indexer.process(arn_services); raises when a service
\* has no client mapping
BuildSdkMapping ==
    /\ pc = "processed"
    /\ LET arn_services == {resources[i].arn_service : i \in 1..Len(resources)} IN
       IF \A svc \in arn_services : sdk_clients_of(svc).found
       THEN /\ sdk_mapping' = sdk_process(arn_services)
            /\ pc' = "mapped"
       ELSE /\ sdk_mapping' = sdk_mapping
            /\ pc' = "aborted"
    /\ UNCHANGED <<scraped, resources, tables, arn, result>>

\* a validation whose error is not raised: the run goes on to generate
Validate_Continue ==
    /\ pc = "mapped"
    /\ pc' = "validated"
    /\ UNCHANGED <<scraped, resources, sdk_mapping, tables, arn, result>>

\* validate_sdk_overrides(resources, sdk_mapping, sdk_resource_overrides)
Validate ==
    /\ pc = "mapped"
    /\ pc' = IF MissingOverrides(resources, sdk_mapping, SDK_RESOURCE_OVERRIDES) = {}
             THEN "validated" ELSE "aborted"
    /\ UNCHANGED <<scraped, resources, sdk_mapping, tables, arn, result>>

\* generator.generate(...): arn_patterns.py is written
Generate ==
    /\ pc = "validated"
    /\ ARN_PATTERNS' = generate(resources)
    /\ AWS_SDK_SERVICES' = sdk_mapping
    /\ AWS_SDK_RESOURCE_OVERRIDES' = SDK_RESOURCE_OVERRIDES
    /\ pc' = "generated"
    /\ UNCHANGED <<scraped, resources, sdk_mapping, arn, result>>

\* the caller runs arnmatch(a) and holds what it returns or raises
ArnMatch(a) ==
    /\ pc = "generated"
    /\ result.status = "none"
    /\ Importable(ARN_PATTERNS)
    /\ arn' = a
    /\ result' = arnmatch(a)
    /\ UNCHANGED <<pc, scraped, resources, sdk_mapping, tables>>

\* first read of a cached property of the returned ARN
ReadResourceId ==
    /\ result.status = "ok"
    /\ result.cache.resource_id = NotCached
    /\ result' = [result EXCEPT !.cache.resource_id = <<resource_id(result)>>]
    /\ UNCHANGED <<pc, scraped, resources, sdk_mapping, tables, arn>>

ReadResourceName ==
    /\ result.status = "ok"
    /\ result.cache.resource_name = NotCached
    /\ LET groups == resource_groups(result)
           fallback == LastEndingWith(groups, Len(groups), "Name") = 0
       IN result' =
            [result EXCEPT
                !.cache.resource_name = <<resource_name(result)>>,
                !.cache.resource_id =
                    IF fallback /\ @ = NotCached THEN <<resource_id(result)>> ELSE @]
    /\ UNCHANGED <<pc, scraped, resources, sdk_mapping, tables, arn>>

ReadSdkServices ==
    /\ result.status = "ok"
    /\ result.cache.aws_sdk_services = NotCached
    /\ result' = [result EXCEPT !.cache.aws_sdk_services =
                                    <<aws_sdk_services(result, AWS_SDK_SERVICES)>>]
    /\ UNCHANGED <<pc, scraped, resources, sdk_mapping, tables, arn>>

ReadSdkService ==
    /\ result.status = "ok"
    /\ result.cache.aws_sdk_service = NotCached
    /\ result' =
        [result EXCEPT
            !.cache.aws_sdk_service =
                <<aws_sdk_service(result, AWS_SDK_SERVICES, AWS_SDK_RESOURCE_OVERRIDES)>>,
            !.cache.aws_sdk_services =
                IF @ = NotCached THEN <<aws_sdk_services(result, AWS_SDK_SERVICES)>> ELSE @]
    /\ UNCHANGED <<pc, scraped, resources, sdk_mapping, tables, arn>>

\* the caller lets go of the outcome of its last call
Release ==
    /\ result.status # "none"
    /\ result' = NoResult
    /\ arn' = ""
    /\ UNCHANGED <<pc, scraped, resources, sdk_mapping, tables>>

Next ==
    \/ Process
    \/ BuildSdkMapping
    \/ Validate
    \/ Generate
    \/ \E a \in Identifiers : ArnMatch(a)
    \/ ReadResourceId
    \/ ReadResourceName
    \/ ReadSdkServices
    \/ ReadSdkService
    \/ Release

Spec == Init /\ [][Next]_vars

---------------------------------------------------------------------------
(* ARN objects constructed directly, read against the client tables of a   *)
(* generation run over the services below                                  *)

AttrNames == {"Account", "KeyId", "Id", "BucketName", "StackName", "Scope"}

AttrLists ==
    UNION {{[i \in 1..n |-> [name |-> q[i], value |-> "val-" \o q[i]]] :
                q \in {q \in [1..n -> AttrNames] : \A i, j \in 1..n : i # j => q[i] # q[j]}}
           : n \in 0..MaxAttrs}

TableServices == {"elasticloadbalancing", "s3", "inspector", "a4b"}

\* (aws_service, resource_type) of the constructed objects
ServiceTypes ==
    {<<"elasticloadbalancing", "loadbalancer">>,
     <<"elasticloadbalancing", "loadbalancer/app/">>,
     <<"elasticloadbalancing", "loadbalancer-x">>,
     <<"elasticloadbalancing", "listener">>,
     <<"s3", "accesspoint">>,
     <<"s3", "accesspointobject/key">>,
     <<"inspector", "target-template">>,
     <<"a4b", "room">>,
     <<"foo", "x">>}

InitARN ==
    /\ pc = "generated"
    /\ scraped = <<>>
    /\ resources = process(<<>>)
    /\ sdk_mapping = sdk_process(TableServices)
    /\ ARN_PATTERNS = generate(process(<<>>))
    /\ AWS_SDK_SERVICES = sdk_process(TableServices)
    /\ AWS_SDK_RESOURCE_OVERRIDES = SDK_RESOURCE_OVERRIDES
    /\ arn = ""
    /\ \E st \in ServiceTypes, attrs \in AttrLists :
          result = MakeARN("aws", st[1], "us-east-1", "012345678901", <<st[2]>>, attrs)

NextARN ==
    \/ ReadResourceId
    \/ ReadResourceName
    \/ ReadSdkServices
    \/ ReadSdkService

SpecARN == InitARN /\ [][NextARN]_vars

---------------------------------------------------------------------------
(* The generation run over one documented template of s3, the loading of   *)
(* the generated module, and calls on identifiers of s3                    *)

S3_TEMPLATE == "arn:${Partition}:s3:::"

\* resource paths: placeholders in and against alphabetical order, a name
\* used twice, a '${' that is never closed (last and first), wildcards in
\* the middle, at the start and at the end, a wildcard next to a
\* placeholder, and literal text with characters re.escape touches
CompilePaths ==
    {"${BucketName}/${ObjectName}",
     "${ObjectName}/${BucketName}",
     "${BucketName}/${BucketName}",
     "${BucketName}/${ObjectName",
     "${BucketName/${ObjectName}",
     "${BucketName}/*/${ObjectName}",
     "*/${ObjectName}",
     "${BucketName}/*",
     "${BucketName}*",
     "app-*/${ObjectName}.log"}

CompileCatalog == {Rec("s3", "object", S3_TEMPLATE \o p) : p \in CompilePaths}

\* resource parts of at most MaxPath pieces joined by '/'
CompileAtoms == {"app", "x"}

RECURSIVE CompileParts(_)
CompileParts(n) ==
    IF n = 1 THEN CompileAtoms
    ELSE {p \o "/" \o a : p \in CompileParts(n - 1), a \in CompileAtoms}

CompileIdentifiers ==
    {S3_HEAD \o p : p \in UNION {CompileParts(n) : n \in 1..MaxPath}}
    \cup {S3_HEAD \o p : p \in
            {"app//app", "app/", "/app", "app/app/", "app/${ObjectName",
             "${BucketName/${ObjectName}", "app-/app.log", "app-1/2/app.log",
             "app-1/appxlog", "x"}}

InitCompile ==
    /\ pc = "scraped"
    /\ \E r \in CompileCatalog : scraped = <<r>>
    /\ resources = scraped
    /\ sdk_mapping = <<>>
    /\ ARN_PATTERNS = <<>>
    /\ AWS_SDK_SERVICES = <<>>
    /\ AWS_SDK_RESOURCE_OVERRIDES = <<>>
    /\ arn = ""
    /\ result = NoResult

\* the import of arn_patterns.py raises re.error: no call can be made
ImportFails ==
    /\ pc = "generated"
    /\ ~Importable(ARN_PATTERNS)
    /\ pc' = "import_failed"
    /\ UNCHANGED <<scraped, resources, sdk_mapping, tables, arn, result>>

NextCompile ==
    \/ Process
    \/ BuildSdkMapping
    \/ Validate
    \/ Generate
    \/ ImportFails
    \/ \E a \in CompileIdentifiers : ArnMatch(a)
    \/ Release

SpecCompile == InitCompile /\ [][NextCompile]_vars

---------------------------------------------------------------------------
(* A caller that changes the contents of the ARN it was handed.  The ARN   *)
(* is a frozen dataclass, its fields cannot be rebound; resource_types is  *)
(* the type_names list object of the registry entry that matched,          *)
(* aws_sdk_services the list object AWS_SDK_SERVICES holds for the service *)
(* (a new empty list when it holds none), attributes a dict made by        *)
(* groupdict() for this call.                                              *)

OwnerLists == {<<ELB_CLASSIC, ELB_APP>>, <<S3_BUCKET>>}

OwnerIdentifiers ==
    {ELB_HEAD \o "loadbalancer/app/app/loadbalancer",
     ELB_HEAD \o "loadbalancer/app",
     "arn:aws:s3:::example-bucket-01"}

InitOwner ==
    /\ pc = "generated"
    /\ scraped \in OwnerLists
    /\ resources = process(scraped)
    /\ sdk_mapping = sdk_process({process(scraped)[i].arn_service : i \in 1..Len(process(scraped))})
    /\ ARN_PATTERNS = generate(resources)
    /\ AWS_SDK_SERVICES = sdk_mapping
    /\ AWS_SDK_RESOURCE_OVERRIDES = SDK_RESOURCE_OVERRIDES
    /\ arn = ""
    /\ result = NoResult

\* lst[0] = "mine" / lst.append("mine")
ListOps == {"set0", "append"}
ChangeList(lst, op) ==
    IF op = "set0" /\ lst # <<>> THEN [lst EXCEPT ![1] = "mine"] ELSE Append(lst, "mine")

\* result.resource_types changed in place: the list is type_names of the
\* registry entry that matched
MutateResourceTypes(op) ==
    /\ pc = "generated"
    /\ result.status = "ok"
    /\ Len(result.resource_types) < MaxList
    /\ LET svc == result.aws_service
           i == FirstMatch(ARN_PATTERNS[svc], 1, arn)
           changed == ChangeList(result.resource_types, op)
       IN /\ result' = [result EXCEPT !.resource_types = changed]
          /\ ARN_PATTERNS' = [ARN_PATTERNS EXCEPT ![svc][i].type_names = changed]
    /\ UNCHANGED <<pc, scraped, resources, sdk_mapping, AWS_SDK_SERVICES,
                   AWS_SDK_RESOURCE_OVERRIDES, arn>>

\* result.aws_sdk_services changed in place
MutateSdkServices(op) ==
    /\ pc = "generated"
    /\ result.status = "ok"
    /\ result.cache.aws_sdk_services # NotCached
    /\ Len(result.cache.aws_sdk_services[1]) < MaxList
    /\ LET svc == result.aws_service
           changed == ChangeList(result.cache.aws_sdk_services[1], op)
       IN /\ result' = [result EXCEPT !.cache.aws_sdk_services = <<changed>>]
          /\ AWS_SDK_SERVICES' =
                IF svc \in DOMAIN AWS_SDK_SERVICES
                THEN [AWS_SDK_SERVICES EXCEPT ![svc] = changed]
                ELSE AWS_SDK_SERVICES
    /\ UNCHANGED <<pc, scraped, resources, sdk_mapping, ARN_PATTERNS,
                   AWS_SDK_RESOURCE_OVERRIDES, arn>>

\* result.attributes["Partition"] = "mine"
MutateAttributes ==
    /\ pc = "generated"
    /\ result.status = "ok"
    /\ result.attributes[1].value # "mine"
    /\ result' = [result EXCEPT !.attributes[1].value = "mine"]
    /\ UNCHANGED <<pc, scraped, resources, sdk_mapping, tables, arn>>

NextOwner ==
    \/ \E a \in OwnerIdentifiers : ArnMatch(a)
    \/ ReadSdkServices
    \/ \E op \in ListOps : MutateResourceTypes(op)
    \/ \E op \in ListOps : MutateSdkServices(op)
    \/ MutateAttributes
    \/ Release

SpecOwner == InitOwner /\ [][NextOwner]_vars

---------------------------------------------------------------------------
(* Callers that run arnmatch and read the properties of what it returned   *)
(* at the same time, one step of one caller at a time.  In this            *)
(* specification pc, arn and result hold one value for each caller: pc[c]  *)
(* is the position of caller c and the index i of its loop over            *)
(* ARN_PATTERNS[service].  Each step reads the tables as they are when it  *)
(* is taken.                                                               *)

Callers == 1..MaxCallers

ConcList == <<ELB_CLASSIC, ELB_APP, S3_BUCKET>>

CONC_HEAD == "arn:aws:elasticloadbalancing::012345678901:"

ConcIdentifiers ==
    {CONC_HEAD \o "loadbalancer/app/n/i",
     CONC_HEAD \o "loadbalancer/n",
     CONC_HEAD \o "x",
     "arn:aws:ec2:::x",
     "arn:aws:s3"}

At(position, i) == [at |-> position, i |-> i]

\* what the generation run over ConcList wrote
ConcResources == process(ConcList)
ConcSdkMapping ==
    sdk_process({ConcResources[i].arn_service : i \in 1..Len(ConcResources)})
ConcPatterns == generate(ConcResources)

InitConc ==
    /\ scraped = ConcList
    /\ resources = ConcResources
    /\ sdk_mapping = ConcSdkMapping
    /\ ARN_PATTERNS = ConcPatterns
    /\ AWS_SDK_SERVICES = ConcSdkMapping
    /\ AWS_SDK_RESOURCE_OVERRIDES = SDK_RESOURCE_OVERRIDES
    /\ pc = [c \in Callers |-> At("idle", 0)]
    /\ arn = [c \in Callers |-> ""]
    /\ result = [c \in Callers |-> NoResult]

\* parts = arn.split(":", 5); the format check
CallerSplit(c, a) ==
    /\ pc[c].at = "idle"
    /\ arn' = [arn EXCEPT ![c] = a]
    /\ LET parts == SplitArn(a) IN
       IF Len(parts) # 6 \/ parts[1] # "arn"
       THEN /\ result' = [result EXCEPT ![c] = Raise("Invalid ARN format: " \o a)]
            /\ pc' = [pc EXCEPT ![c] = At("raised", 0)]
       ELSE /\ result' = result
            /\ pc' = [pc EXCEPT ![c] = At("split", 0)]
    /\ UNCHANGED <<scraped, resources, sdk_mapping, tables>>

\* if service not in ARN_PATTERNS; iter(ARN_PATTERNS[service])
CallerLookup(c) ==
    /\ pc[c].at = "split"
    /\ LET service == SplitArn(arn[c])[3] IN
       IF service \notin DOMAIN ARN_PATTERNS
       THEN /\ result' = [result EXCEPT ![c] = Raise("Unknown service: " \o service)]
            /\ pc' = [pc EXCEPT ![c] = At("raised", 0)]
       ELSE /\ result' = result
            /\ pc' = [pc EXCEPT ![c] = At("loop", 1)]
    /\ UNCHANGED <<scraped, resources, sdk_mapping, tables, arn>>

\* one iteration of the loop with an iterator that all callers share: a
\* pattern that did not match is skipped for every caller in the loop
CallerTryPattern_SharedIterator(c) ==
    /\ pc[c].at = "loop"
    /\ LET parts == SplitArn(arn[c])
           patterns == ARN_PATTERNS[parts[3]]
           i == pc[c].i
       IN IF i > Len(patterns)
          THEN /\ result' = [result EXCEPT ![c] = Raise("No pattern matched ARN: " \o arn[c])]
               /\ pc' = [pc EXCEPT ![c] = At("raised", 0)]
          ELSE IF Match(patterns[i].regex, arn[c]).ok
          THEN /\ result' = [result EXCEPT ![c] =
                               MakeARN(parts[2], parts[3], parts[4], parts[5],
                                       patterns[i].type_names,
                                       Match(patterns[i].regex, arn[c]).groups)]
               /\ pc' = [pc EXCEPT ![c] = At("returned", 0)]
          ELSE /\ result' = result
               /\ pc' = [d \in Callers |->
                            IF pc[d].at = "loop" THEN At("loop", i + 1) ELSE pc[d]]
    /\ UNCHANGED <<scraped, resources, sdk_mapping, tables, arn>>

\* one iteration of for regex, type_names in ARN_PATTERNS[service], or the
\* raise after the loop
CallerTryPattern(c) ==
    /\ pc[c].at = "loop"
    /\ LET parts == SplitArn(arn[c])
           patterns == ARN_PATTERNS[parts[3]]
           i == pc[c].i
       IN IF i > Len(patterns)
          THEN /\ result' = [result EXCEPT ![c] = Raise("No pattern matched ARN: " \o arn[c])]
               /\ pc' = [pc EXCEPT ![c] = At("raised", 0)]
          ELSE IF Match(patterns[i].regex, arn[c]).ok
          THEN /\ result' = [result EXCEPT ![c] =
                               MakeARN(parts[2], parts[3], parts[4], parts[5],
                                       patterns[i].type_names,
                                       Match(patterns[i].regex, arn[c]).groups)]
               /\ pc' = [pc EXCEPT ![c] = At("returned", 0)]
          ELSE /\ result' = result
               /\ pc' = [pc EXCEPT ![c] = At("loop", i + 1)]
    /\ UNCHANGED <<scraped, resources, sdk_mapping, tables, arn>>

\* r.resource_id
CallerReadResourceId(c) ==
    /\ pc[c].at = "returned"
    /\ result' = [result EXCEPT ![c].cache.resource_id = <<resource_id(result[c])>>]
    /\ pc' = [pc EXCEPT ![c] = At("read_id", 0)]
    /\ UNCHANGED <<scraped, resources, sdk_mapping, tables, arn>>

\* r.resource_name
CallerReadResourceName(c) ==
    /\ pc[c].at = "read_id"
    /\ result' = [result EXCEPT ![c].cache.resource_name = <<resource_name(result[c])>>]
    /\ pc' = [pc EXCEPT ![c] = At("read_name", 0)]
    /\ UNCHANGED <<scraped, resources, sdk_mapping, tables, arn>>

\* r.aws_sdk_service, its first line: sdk_clients = self.aws_sdk_services
CallerReadSdkServices(c) ==
    /\ pc[c].at = "read_name"
    /\ result' = [result EXCEPT ![c].cache.aws_sdk_services =
                                    <<aws_sdk_services(result[c], AWS_SDK_SERVICES)>>]
    /\ pc' = [pc EXCEPT ![c] = At("read_services", 0)]
    /\ UNCHANGED <<scraped, resources, sdk_mapping, tables, arn>>

\* r.aws_sdk_service, the rest: the choice among sdk_clients
CallerReadSdkService(c) ==
    /\ pc[c].at = "read_services"
    /\ result' = [result EXCEPT ![c].cache.aws_sdk_service =
                    <<aws_sdk_service(result[c],
                                      [s \in {result[c].aws_service} |->
                                          result[c].cache.aws_sdk_services[1]],
                                      AWS_SDK_RESOURCE_OVERRIDES)>>]
    /\ pc' = [pc EXCEPT ![c] = At("done", 0)]
    /\ UNCHANGED <<scraped, resources, sdk_mapping, tables, arn>>

\* the caller lets go of the outcome of its call
CallerRelease(c) ==
    /\ pc[c].at \in {"done", "raised"}
    /\ result' = [result EXCEPT ![c] = NoResult]
    /\ arn' = [arn EXCEPT ![c] = ""]
    /\ pc' = [pc EXCEPT ![c] = At("idle", 0)]
    /\ UNCHANGED <<scraped, resources, sdk_mapping, tables>>

NextConc ==
    \E c \in Callers :
        \/ \E a \in ConcIdentifiers : CallerSplit(c, a)
        \/ CallerLookup(c)
        \/ CallerTryPattern(c)
        \/ CallerReadResourceId(c)
        \/ CallerReadResourceName(c)
        \/ CallerReadSdkServices(c)
        \/ CallerReadSdkService(c)
        \/ CallerRelease(c)

SpecConc == InitConc /\ [][NextConc]_vars

---------------------------------------------------------------------------
(* ARNIndexer.process alone, on rows that exercise its tables and the      *)
(* ranking: templates that differ only in the names of their placeholders, *)
(* in their header fields, in their segment counts, a literal segment      *)
(* against a placeholder and a wildcard, a row with a pattern override, a  *)
(* row that PATTERN_INCLUDES also holds, a row that is filtered out.       *)

S3_BUCKET_ID == Rec("s3", "bucket-id", "arn:${Partition}:s3:::${BucketId}")
S3_OBJECT == Rec("s3", "object", "arn:${Partition}:s3:::${BucketName}/${ObjectName}")
S3_ALL == Rec("s3", "all", "arn:${Partition}:s3:::*")
S3_JOB == Rec("s3", "job", "arn:${Partition}:s3:${Region}:${Account}:job/${JobId}")
S3_TILDE == Rec("s3", "tilde", "arn:${Partition}:s3:::~x/${ObjectName}")
ARTIFACT_AGREEMENT == Rec("artifact", "agreement", "arn:${Partition}:artifact:::agreement/*")
ARTIFACT_MOVED == Rec("artifact", "agreement", "arn:${Partition}:s3:::agreement/*")
INSPECTOR_TEMPLATE == Rec("inspector", "target-template", PATTERN_INCLUDES[1][2])
EBS_SNAPSHOT == Rec("ebs", "snapshot", "arn:${Partition}:ec2:${Region}::snapshot/${SnapshotId}")

IndexCatalog ==
    {S3_BUCKET, S3_BUCKET_ID, S3_OBJECT, S3_ALL, S3_JOB, S3_ACCESSPOINT, S3_TILDE,
     ARTIFACT_AGREEMENT, ARTIFACT_MOVED, INSPECTOR_TEMPLATE, EBS_SNAPSHOT}

IndexLists ==
    UNION {{q \in [1..n -> IndexCatalog] : \A i, j \in 1..n : i # j => q[i] # q[j]}
           : n \in 0..MaxIndex}

InitIndex ==
    /\ pc = "scraped"
    /\ scraped \in IndexLists
    /\ resources = scraped
    /\ sdk_mapping = <<>>
    /\ ARN_PATTERNS = <<>>
    /\ AWS_SDK_SERVICES = <<>>
    /\ AWS_SDK_RESOURCE_OVERRIDES = <<>>
    /\ arn = ""
    /\ result = NoResult

NextIndex == Process

SpecIndex == InitIndex /\ [][NextIndex]_vars

---------------------------------------------------------------------------
(* Generation runs that can abort: rows of a service that has no client,   *)
(* and rows of services with two clients whose resource type no override   *)
(* prefix covers, next to rows that pass.                                  *)

S3_UNCOVERED == Rec("s3", "vault", "arn:${Partition}:s3:${Region}:${Account}:vault/${VaultId}")
ELB_UNCOVERED == Rec("elasticloadbalancing", "loadbalancers",
    "arn:${Partition}:elasticloadbalancing:${Region}:${Account}:loadbalancers/${Name}")
FOO_THING == Rec("foo", "thing", "arn:${Partition}:foo:${Region}:${Account}:thing/${ThingId}")

BuildCatalog == {ELB_APP, ELB_CLASSIC, S3_BUCKET, S3_UNCOVERED, ELB_UNCOVERED, FOO_THING}

BuildLists ==
    UNION {{q \in [1..n -> BuildCatalog] : \A i, j \in 1..n : i # j => q[i] # q[j]}
           : n \in 0..MaxBuild}

BuildIdentifiers ==
    {CONC_HEAD \o "loadbalancer/app/n/i",
     CONC_HEAD \o "loadbalancer/n",
     "arn:aws:s3:::b",
     "arn:aws:inspector::012345678901:target/t/template/u"}

InitBuild ==
    /\ pc = "scraped"
    /\ scraped \in BuildLists
    /\ resources = scraped
    /\ sdk_mapping = <<>>
    /\ ARN_PATTERNS = <<>>
    /\ AWS_SDK_SERVICES = <<>>
    /\ AWS_SDK_RESOURCE_OVERRIDES = <<>>
    /\ arn = ""
    /\ result = NoResult

NextBuild ==
    \/ Process
    \/ BuildSdkMapping
    \/ Validate
    \/ Generate
    \/ \E a \in BuildIdentifiers : ArnMatch(a)
    \/ ReadSdkService
    \/ Release

SpecBuild == InitBuild /\ [][NextBuild]_vars

---------------------------------------------------------------------------
(* Generation runs over templates whose literal text holds regex           *)
(* metacharacters and hyphens, templates with the partition, region and    *)
(* account placeholders in the header and in the resource part, and        *)
(* templates that end in a placeholder; calls with identifiers that differ *)
(* from them in one character, in the width of a field, or by a line break.*)

S3_DOT == Rec("s3", "object/dot", "arn:${Partition}:s3:::a.b/${Key}")
S3_META == Rec("s3", "object/meta", "arn:${Partition}:s3:::a+(b)$c/${Key}")
S3_HYPHEN == Rec("s3", "object/hyphen", "arn:${Partition}:s3:::a-b/${Key}")
S3_REGION_PATH == Rec("s3", "object/region", "arn:${Partition}:s3:::${Region}/${Key}")
S3_ACCOUNT_PATH == Rec("s3", "object/account", "arn:aws:s3:::${Account}/${Partition}")
S3_WILD_HEADER == Rec("s3", "object/wild", "arn:${Partition}:s3:*:${Account}:x/${Key}")
LOGS_GROUP == Rec("logs", "log-group",
    "arn:${Partition}:logs:${Region}:${Account}:log-group:${LogGroupName}")

RegexLists ==
    {<<r>> : r \in {S3_DOT, S3_META, S3_HYPHEN, S3_REGION_PATH, S3_ACCOUNT_PATH,
                    S3_WILD_HEADER, S3_ACCESSPOINT, S3_BUCKET, LOGS_GROUP}}
    \cup {<<S3_ACCESSPOINT, S3_BUCKET>>, <<S3_ACCESSPOINT, S3_REGION_PATH>>}

LOGS_HEAD == "arn:aws:logs:us-east-1:123456789012:log-group:"

RegexIdentifiers ==
    {S3_HEAD \o p : p \in
        {"a.b/k", "axb/k", "a.b/k\n", "a.b/k\nk", "a.b/", "a+(b)$c/k", "aa(b)$c/k",
         "a+b$c/k", "a+(b)c/k", "a-b/k", "a_b/k", "ab/k", "b", "b\n",
         "eu-1/k", "/k", "e.u/k", "012345678901/aws", "01234567890/aws",
         "012345678901/a.b", "accesspoint/a"}}
    \cup {"arn:aws:s3:us-east-1:012345678901:accesspoint/a",
          "arn:aws:s3::012345678901:accesspoint/a",
          "arn:aws:s3:us-east-1:01234567890:accesspoint/a",
          "arn:aws:s3:us-east-1:0123456789012:accesspoint/a",
          "arn:aws:s3:us-east-1:01234567890a:accesspoint/a",
          "arn:aws:s3:us-east-1::accesspoint/a",
          "arn:aws:s3:us east:012345678901:accesspoint/a",
          "arn:a.b:s3:us-east-1:012345678901:accesspoint/a",
          "arn::s3:us-east-1:012345678901:accesspoint/a",
          "arn:aws:s3:us-east-1:012345678901:x/k",
          "arn:aws:s3:a:b:012345678901:x/k",
          LOGS_HEAD \o "/aws/lambda/function-logs",
          LOGS_HEAD \o "a:b/c",
          LOGS_HEAD \o "a\n",
          LOGS_HEAD}

InitRegex ==
    /\ pc = "scraped"
    /\ scraped \in RegexLists
    /\ resources = scraped
    /\ sdk_mapping = <<>>
    /\ ARN_PATTERNS = <<>>
    /\ AWS_SDK_SERVICES = <<>>
    /\ AWS_SDK_RESOURCE_OVERRIDES = <<>>
    /\ arn = ""
    /\ result = NoResult

NextRegex ==
    \/ Process
    \/ BuildSdkMapping
    \/ Validate
    \/ Generate
    \/ \E a \in RegexIdentifiers : ArnMatch(a)
    \/ Release

SpecRegex == InitRegex /\ [][NextRegex]_vars

---------------------------------------------------------------------------
(* ARNIndexer.deduplicate on the lists process hands to it: rows of the    *)
(* documentation with arn_service set, several of them sharing a template  *)

\* r["arn_service"] = self.extract_arn_service(r["arn_pattern"])
Indexed(r) == [r EXCEPT !.arn_service = extract_arn_service(r.arn_pattern)]

\* the application load balancer template as the Elastic Load Balancing V2
\* page documents it, and under a second resource type of the owning service
ELBV2_APP == Rec("elasticloadbalancingv2", "loadbalancer/app/", ELB_APP.arn_pattern)
ELB_APP_ALT == Rec("elasticloadbalancing", "loadbalancer/application", ELB_APP.arn_pattern)

\* a template that two services document, neither being its service field
MKT_CATALOG == Rec("aws-marketplace-catalog", "Entity",
    "arn:${Partition}:aws-marketplace:${Region}:${Account}:${Catalog}/${EntityType}/${ResourceId}")
MKT_MANAGEMENT == Rec("aws-marketplace-management", "Entity", MKT_CATALOG.arn_pattern)

DedupCatalog ==
    {Indexed(r) : r \in {ELB_APP, ELBV2_APP, ELB_APP_ALT, MKT_CATALOG, MKT_MANAGEMENT, S3_BUCKET}}

DedupLists ==
    UNION {{q \in [1..n -> DedupCatalog] : \A i, j \in 1..n : i # j => q[i] # q[j]}
           : n \in 0..MaxDedup}

\* scraped holds the list handed to deduplicate, resources what it returns
InitDedup ==
    /\ pc = "filtered"
    /\ scraped \in DedupLists
    /\ resources = scraped
    /\ sdk_mapping = <<>>
    /\ ARN_PATTERNS = <<>>
    /\ AWS_SDK_SERVICES = <<>>
    /\ AWS_SDK_RESOURCE_OVERRIDES = <<>>
    /\ arn = ""
    /\ result = NoResult

\* resources = self.deduplicate(resources)
Deduplicate ==
    /\ pc = "filtered"
    /\ resources' = deduplicate(resources)
    /\ pc' = "deduplicated"
    /\ UNCHANGED <<scraped, sdk_mapping, tables, arn, result>>

NextDedup == Deduplicate

SpecDedup == InitDedup /\ [][NextDedup]_vars

---------------------------------------------------------------------------
(* Vocabulary of the properties *)

\* position of the k-th ':' of s (0 for k = 0), or -1 when s has fewer
RECURSIVE NthColon(_, _)
NthColon(s, k) ==
    IF k = 0 THEN 0
    ELSE LET p == NthColon(s, k - 1) IN
         IF p = -1 THEN -1
         ELSE LET q == FindFrom(s, ":", p + 1) IN IF q = 0 THEN -1 ELSE q

\* the k-th of the first five ':'-separated fields of s
Field(s, k) == SubSeq(s, NthColon(s, k - 1) + 1, NthColon(s, k) - 1)

\* everything after the fifth ':'
ResourcePart(s) == SubSeq(s, NthColon(s, 5) + 1, Len(s))

WellFormed(s) == NthColon(s, 5) # -1 /\ Field(s, 1) = "arn"

Called == result.status # "none"

\* arnmatch has returned or raised and no property was read yet
Returned == Called /\ result.cache = EmptyCache

\* the positions, in the registry list of a's service, of the patterns that
\* match a
MatchingPatterns(a) ==
    LET pats == ARN_PATTERNS[Field(a, 3)] IN
    {i \in 1..Len(pats) : Match(pats[i].regex, a).ok}

\* the processed records registered under service svc, in order
ServiceRecords(svc) == SelectSeq(resources, LAMBDA r : r.arn_service = svc)

\* why arnmatch(a) must fail, "" when it must not
Cause(a) ==
    IF ~WellFormed(a) THEN "malformed"
    ELSE IF Field(a, 3) \notin DOMAIN ARN_PATTERNS THEN "unknown"
    ELSE IF MatchingPatterns(a) = {} THEN "nomatch"
    ELSE ""

HasTemplate(rs, rec) == \E i \in 1..Len(rs) : rs[i].arn_pattern = rec.arn_pattern

---------------------------------------------------------------------------
(* C1: for a well-formed identifier of a registered service the outcome is *)
(* that of the first pattern, in registry order, that matches: its first   *)
(* type name (the record's own resource_type, not an alias) as             *)
(* resource_type, its whole type-name list as resource_types, its captured *)
(* groups as attributes; the no-pattern error is raised exactly when no    *)
(* pattern of the service matches.                                         *)
C1_FirstMatchWins ==
    (Returned /\ WellFormed(arn) /\ Field(arn, 3) \in DOMAIN ARN_PATTERNS) =>
        LET svc == Field(arn, 3)
            pats == ARN_PATTERNS[svc]
            M == MatchingPatterns(arn)
        IN IF M = {}
           THEN /\ result.status = "error"
                /\ result.message = "No pattern matched ARN: " \o arn
           ELSE /\ result.status = "ok"
                /\ result.resource_type = pats[Min(M)].type_names[1]
                /\ result.resource_type = ServiceRecords(svc)[Min(M)].resource_type
                /\ result.resource_types = pats[Min(M)].type_names
                /\ result.attributes = Match(pats[Min(M)].regex, arn).groups

\* a call returned although a later pattern of the service matches too, and
\* the winning pattern has an alias
C1_Witness ==
    /\ result.status = "ok"
    /\ Cardinality(MatchingPatterns(arn)) >= 2
    /\ Len(result.resource_types) >= 2

---------------------------------------------------------------------------
(* C2: whatever the order of the application and the classic load balancer *)
(* records in the scraped list, in the generated registry an identifier    *)
(* ...:loadbalancer/app/<name>/<id> gets type "loadbalancer/app/" with     *)
(* LoadBalancerName = <name> and LoadBalancerId = <id>, and an identifier  *)
(* ...:loadbalancer/<name> gets type "loadbalancer".                       *)
C2_LongerTemplateFirst ==
    (Returned /\ HasTemplate(scraped, ELB_APP) /\ HasTemplate(scraped, ELB_CLASSIC)
        /\ StartsWith(arn, ELB_HEAD)) =>
        LET path == StrSplit(ResourcePart(arn), "/", -1) IN
        /\ (Len(path) = 4 /\ path[1] = "loadbalancer" /\ path[2] = "app") =>
                /\ result.status = "ok"
                /\ result.resource_type = "loadbalancer/app/"
                /\ \E i, j \in 1..Len(result.attributes) :
                      /\ result.attributes[i] = [name |-> "LoadBalancerName", value |-> path[3]]
                      /\ result.attributes[j] = [name |-> "LoadBalancerId", value |-> path[4]]
        /\ (Len(path) = 2 /\ path[1] = "loadbalancer") =>
                /\ result.status = "ok"
                /\ result.resource_type = "loadbalancer"
                /\ \E i \in 1..Len(result.attributes) :
                      result.attributes[i] = [name |-> "LoadBalancerName", value |-> path[2]]

\* the classic record was scraped first and an application load balancer
\* identifier was matched
C2_Witness ==
    /\ scraped = <<ELB_CLASSIC, ELB_APP>>
    /\ arn = ELB_HEAD \o "loadbalancer/app/n:1/i-7"
    /\ result.status = "ok"
    /\ result.resource_type = "loadbalancer/app/"

---------------------------------------------------------------------------
(* C3: an identifier is rejected as malformed exactly when it has fewer    *)
(* than five ':' or does not start with the field "arn"; ':' after the     *)
(* fifth stay in the resource part; the fields 2 to 5 of an accepted       *)
(* identifier are the partition, service, region and account of the result.*)
C3_SixFields ==
    Returned =>
        /\ (result.status = "error" /\ result.message = "Invalid ARN format: " \o arn)
                <=> ~WellFormed(arn)
        /\ result.status = "ok" =>
                /\ result.aws_partition = Field(arn, 2)
                /\ result.aws_service = Field(arn, 3)
                /\ result.aws_region = Field(arn, 4)
                /\ result.aws_account = Field(arn, 5)

\* an identifier with a ':' inside its resource part was accepted
C3_Witness ==
    /\ result.status = "ok"
    /\ FindFrom(ResourcePart(arn), ":", 1) # 0
    /\ result.aws_account = "012345678901"

---------------------------------------------------------------------------
(* C4: a well-formed identifier whose service is not a key of the registry *)
(* fails with the unknown-service error; an identifier that is malformed   *)
(* fails as malformed also when its service is not registered.             *)
C4_UnknownService ==
    Returned =>
        /\ (WellFormed(arn) /\ Field(arn, 3) \notin DOMAIN ARN_PATTERNS) =>
                /\ result.status = "error"
                /\ result.message = "Unknown service: " \o Field(arn, 3)
        /\ (result.status = "error" /\ StartsWith(result.message, "Unknown service: ")) =>
                WellFormed(arn) /\ Field(arn, 3) \notin DOMAIN ARN_PATTERNS

C4_Witness ==
    /\ arn = "arn:unknown:foo:us-east-1:1:x"
    /\ result.status = "error"
    /\ result.message = "Unknown service: foo"

---------------------------------------------------------------------------
(* C5 *)

\* one identifier for each way arnmatch fails
Probes == {"arn", "arn:unknown:foo:us-east-1:1:x",
           "arn:aws:inspector:us-east-1:012345678901:target/t1"}

\* C5 as stated: failures with different causes are errors of different
\* types.
C5_DistinctErrorTypes ==
    \A b \in Probes :
        (Returned /\ result.status = "error" /\ arnmatch(b).status = "error" /\ Cause(arn) # Cause(b))
            => result.error # arnmatch(b).error

\* C5 as amended: each of the three failures is raised to the caller, all
\* three as the one error type ARNError, told apart by the message only;
\* none is replaced by a result.
C5_OneErrorTypeNoDefault ==
    Returned =>
        /\ Cause(arn) # "" <=> result.status = "error"
        /\ result.status = "error" =>
                /\ result.error = "ARNError"
                /\ result.message =
                        CASE Cause(arn) = "malformed" -> "Invalid ARN format: " \o arn
                          [] Cause(arn) = "unknown" -> "Unknown service: " \o Field(arn, 3)
                          [] OTHER -> "No pattern matched ARN: " \o arn

\* a call failed because no pattern of a registered service matched
C5_Witness ==
    /\ result.status = "error"
    /\ Cause(arn) = "nomatch"
    /\ result.error = "ARNError"

---------------------------------------------------------------------------
(* Vocabulary of the ARN properties *)

\* positions of the attributes other than Partition, Region and Account
ResourceAttrs(self) ==
    {i \in 1..Len(self.attributes) :
        self.attributes[i].name \notin {"Partition", "Region", "Account"}}

\* those whose name ends in suffix
AttrsEnding(self, suffix) ==
    {i \in ResourceAttrs(self) :
        LET n == self.attributes[i].name IN
        Len(n) >= Len(suffix) /\ SubSeq(n, Len(n) - Len(suffix) + 1, Len(n)) = suffix}

\* the resource id as C6 states it
StatedResourceId(self) ==
    IF AttrsEnding(self, "Id") # {}
    THEN self.attributes[Max(AttrsEnding(self, "Id"))].value
    ELSE IF AttrsEnding(self, "Name") # {}
    THEN self.attributes[Max(AttrsEnding(self, "Name"))].value
    ELSE IF ResourceAttrs(self) # {}
    THEN self.attributes[Max(ResourceAttrs(self))].value
    ELSE ""

\* the clients of the service of self, and the positions of the override
\* entries of that service that fit the resource type of self
ClientsOf(self) ==
    IF self.aws_service \in DOMAIN AWS_SDK_SERVICES
    THEN AWS_SDK_SERVICES[self.aws_service] ELSE <<>>

OverridesOf(self) ==
    IF self.aws_service \in DOMAIN AWS_SDK_RESOURCE_OVERRIDES
    THEN AWS_SDK_RESOURCE_OVERRIDES[self.aws_service] ELSE <<>>

FittingOverrides(self) ==
    {i \in 1..Len(OverridesOf(self)) :
        LET prefix == OverridesOf(self)[i][1] \o "/" IN
        \/ self.resource_type = OverridesOf(self)[i][1]
        \/ /\ Len(self.resource_type) >= Len(prefix)
           /\ SubSeq(self.resource_type, 1, Len(prefix)) = prefix}

---------------------------------------------------------------------------
(* C6: resource_id is the value of the last attribute, Partition, Region   *)
(* and Account left out, whose name ends in "Id"; without one, of the last *)
(* whose name ends in "Name"; without one, of the last attribute; and ""   *)
(* when no attribute remains.                                              *)
C6_ResourceId ==
    (result.status = "ok" /\ result.cache.resource_id # NotCached) =>
        result.cache.resource_id[1] = StatedResourceId(result)

\* resource_id was read of an ARN whose last attribute ends in "Name" and
\* that has an earlier attribute ending in "Id"
C6_Witness ==
    /\ result.status = "ok"
    /\ result.cache.resource_id # NotCached
    /\ AttrsEnding(result, "Id") # {}
    /\ Max(ResourceAttrs(result)) \in AttrsEnding(result, "Name")
    /\ result.cache.resource_id[1] = result.attributes[Max(AttrsEnding(result, "Id"))].value

---------------------------------------------------------------------------
(* C7: resource_name is the value of the last attribute, Partition, Region *)
(* and Account left out, whose name ends in "Name"; without one it is the  *)
(* resource_id of the same ARN.                                            *)
C7_ResourceName ==
    (result.status = "ok" /\ result.cache.resource_name # NotCached) =>
        IF AttrsEnding(result, "Name") # {}
        THEN result.cache.resource_name[1] =
                result.attributes[Max(AttrsEnding(result, "Name"))].value
        ELSE /\ result.cache.resource_name[1] = StatedResourceId(result)
             /\ result.cache.resource_id = <<result.cache.resource_name[1]>>

\* resource_name was read of an ARN with two attributes ending in "Name"
\* and a later one ending in "Id"
C7_Witness ==
    /\ result.status = "ok"
    /\ result.cache.resource_name # NotCached
    /\ Cardinality(AttrsEnding(result, "Name")) = 2
    /\ Max(ResourceAttrs(result)) \in AttrsEnding(result, "Id")

---------------------------------------------------------------------------
(* C8: aws_sdk_service is unresolved for a service without clients, the    *)
(* client of a service with one client, and for a service with several     *)
(* clients the client of the first entry of the service's override list    *)
(* whose prefix is the resource type or a path prefix of it.               *)
C8_ClientResolution ==
    (result.status = "ok" /\ result.cache.aws_sdk_service # NotCached) =>
        LET got == result.cache.aws_sdk_service[1] IN
        /\ Len(ClientsOf(result)) = 0 => got = None
        /\ Len(ClientsOf(result)) = 1 => got = Some(ClientsOf(result)[1])
        /\ (Len(ClientsOf(result)) > 1 /\ FittingOverrides(result) # {}) =>
                got = Some(OverridesOf(result)[Min(FittingOverrides(result))][2])

\* the client was read of an ARN of a service with two clients whose type
\* fits two override entries with different clients
C8_Witness ==
    /\ result.status = "ok"
    /\ result.cache.aws_sdk_service # NotCached
    /\ Len(ClientsOf(result)) > 1
    /\ \E i, j \in FittingOverrides(result) :
          OverridesOf(result)[i][2] # OverridesOf(result)[j][2]

---------------------------------------------------------------------------
(* C9 *)

\* C9 as stated: with several clients and no fitting override entry the
\* outcome is a client of the service (its default).
C9_DefaultClient ==
    (result.status = "ok" /\ result.cache.aws_sdk_service # NotCached
        /\ Len(ClientsOf(result)) > 1 /\ FittingOverrides(result) = {}) =>
        /\ ~result.cache.aws_sdk_service[1].none
        /\ \E i \in 1..Len(ClientsOf(result)) :
              result.cache.aws_sdk_service[1].client = ClientsOf(result)[i]

\* C9 as amended: with several clients and no fitting override entry the
\* outcome is unresolved (None); no default client exists.
C9_NoOverrideUnresolved ==
    (result.status = "ok" /\ result.cache.aws_sdk_service # NotCached
        /\ Len(ClientsOf(result)) > 1 /\ FittingOverrides(result) = {}) =>
        result.cache.aws_sdk_service[1] = None

\* the client was read of an ARN of a service with two clients whose type
\* fits no override entry
C9_Witness ==
    /\ result.status = "ok"
    /\ result.cache.aws_sdk_service = <<None>>
    /\ Len(ClientsOf(result)) > 1
    /\ FittingOverrides(result) = {}

---------------------------------------------------------------------------
(* C10 *)

\* the segments of the resource path of record r
SegmentsOf(r) ==
    LET parts == StrSplit(r.arn_pattern, ":", 5) IN
    IF Len(parts) = 6 THEN parse_segments(parts[6]) ELSE <<>>

\* a segment that is neither a placeholder nor a wildcard
LiteralCount(r) ==
    Cardinality({i \in 1..Len(SegmentsOf(r)) :
        LET seg == SegmentsOf(r)[i] IN
        ~StartsWith(seg, "${") /\ FindFrom(seg, "*", 1) = 0})

SameRegionAccount(a, b) ==
    /\ Field(a.arn_pattern, 4) = Field(b.arn_pattern, 4)
    /\ Field(a.arn_pattern, 5) = Field(b.arn_pattern, 5)

\* the registry list of svc is the compiled list of its records, in order
RegistryFollowsRecords(svc) ==
    /\ Len(ARN_PATTERNS[svc]) = Len(ServiceRecords(svc))
    /\ \A i \in 1..Len(ARN_PATTERNS[svc]) :
          ARN_PATTERNS[svc][i].regex = pattern_to_regex(ServiceRecords(svc)[i].arn_pattern)

\* C10 as stated: a pattern with strictly more literal segments and at
\* least as many segments as another pattern of its service precedes it.
C10_MoreLiteralFirst ==
    (pc = "generated" /\ ~Called) =>
        \A svc \in DOMAIN ARN_PATTERNS :
            /\ RegistryFollowsRecords(svc)
            /\ \A i, j \in 1..Len(ServiceRecords(svc)) :
                  LET A == ServiceRecords(svc)[i]
                      B == ServiceRecords(svc)[j]
                  IN (/\ LiteralCount(A) > LiteralCount(B)
                      /\ Len(SegmentsOf(A)) >= Len(SegmentsOf(B))) => i < j

\* C10 as amended: a pattern with strictly more literal segments and
\* strictly more segments than another pattern of its service that has the
\* same region and account fields precedes it.
C10_MoreSegmentsSameHeaderFirst ==
    (pc = "generated" /\ ~Called) =>
        \A svc \in DOMAIN ARN_PATTERNS :
            /\ RegistryFollowsRecords(svc)
            /\ \A i, j \in 1..Len(ServiceRecords(svc)) :
                  LET A == ServiceRecords(svc)[i]
                      B == ServiceRecords(svc)[j]
                  IN (/\ SameRegionAccount(A, B)
                      /\ LiteralCount(A) > LiteralCount(B)
                      /\ Len(SegmentsOf(A)) > Len(SegmentsOf(B))) => i < j

\* a registry generated from the classic record followed by the
\* application record: the application template has more literal segments
\* and more segments, and the same region and account fields
C10_Witness ==
    /\ pc = "generated"
    /\ scraped = <<ELB_CLASSIC, ELB_APP>>
    /\ LiteralCount(ELB_APP) > LiteralCount(ELB_CLASSIC)
    /\ Len(SegmentsOf(ELB_APP)) > Len(SegmentsOf(ELB_CLASSIC))
    /\ SameRegionAccount(ELB_APP, ELB_CLASSIC)
    /\ Len(ARN_PATTERNS["elasticloadbalancing"]) = 2

---------------------------------------------------------------------------
(* C11: in the registry that process and generate build from any scraped   *)
(* list, the list of every service is the compiled list of the service's   *)
(* processed records in their order, and no record of it has a sort_key    *)
(* (normalized service, normalized region, normalized account, minus the   *)
(* segment count, normalized segments) smaller than that of a record       *)
(* before it.                                                              *)
C11_AscendingWithinService ==
    (pc = "generated" /\ ~Called) =>
        \A svc \in DOMAIN ARN_PATTERNS :
            /\ RegistryFollowsRecords(svc)
            /\ \A i, j \in 1..Len(ServiceRecords(svc)) :
                  i < j => ~KeyLess(sort_key(ServiceRecords(svc)[j]),
                                    sort_key(ServiceRecords(svc)[i]))

\* a registry generated from the access point record followed by the bucket
\* record: the bucket pattern, scraped last, is first in the list of s3
C11_Witness ==
    /\ pc = "generated"
    /\ scraped = <<S3_ACCESSPOINT, S3_BUCKET>>
    /\ Len(ARN_PATTERNS["s3"]) = 2
    /\ ARN_PATTERNS["s3"][1].regex = pattern_to_regex(S3_BUCKET.arn_pattern)
    /\ KeyLess(sort_key(S3_BUCKET), sort_key(S3_ACCESSPOINT))

---------------------------------------------------------------------------
(* C12 *)

\* c is a character that a value of placeholder name may hold: a word
\* character or '-' for the partition and the region, a digit for the
\* account, anything but a line end for the others
ConformingChar(name, c) ==
    CASE name \in {"Partition", "Region"} -> FindFrom(WordChars \o "-", c, 1) # 0
      [] name = "Account" -> FindFrom(Digits, c, 1) # 0
      [] OTHER -> c # "\n"

\* the number of characters of a from position j on that placeholder name
\* may hold
RECURSIVE ConformingRun(_, _, _)
ConformingRun(name, a, j) ==
    IF j > Len(a) \/ ~ConformingChar(name, Ch(a, j)) THEN 0
    ELSE 1 + ConformingRun(name, a, j + 1)

\* the lengths of the non-empty conforming values of placeholder name that
\* a holds at position j (an account has twelve digits)
ValueLengths(name, a, j) ==
    LET run == ConformingRun(name, a, j) IN
    IF name = "Account" THEN (IF run >= 12 THEN {12} ELSE {}) ELSE 1..run

\* a from position j on is the text of the template pieces k.. with a
\* conforming non-empty value in place of every placeholder
RECURSIVE IsInstance(_, _, _, _)
IsInstance(ps, k, a, j) ==
    IF k > Len(ps) THEN j = Len(a) + 1
    ELSE IF ~ps[k].var
    THEN /\ j + Len(ps[k].text) - 1 <= Len(a)
         /\ SubSeq(a, j, j + Len(ps[k].text) - 1) = ps[k].text
         /\ IsInstance(ps, k + 1, a, j + Len(ps[k].text))
    ELSE \E n \in ValueLengths(ps[k].text, a, j) : IsInstance(ps, k + 1, a, j + n)

\* identifier a can be built from the template of record r
BuiltFrom(r, a) == IsInstance(VarScan(r.arn_pattern, 1, ""), 1, a, 1)

\* C12 as stated: an identifier built from the template of a record of the
\* registry gets that record's resource type.
C12_OwnTypeAlways ==
    (Returned /\ WellFormed(arn) /\ Field(arn, 3) \in DOMAIN ARN_PATTERNS) =>
        \A k \in 1..Len(ServiceRecords(Field(arn, 3))) :
            LET r == ServiceRecords(Field(arn, 3))[k] IN
            BuiltFrom(r, arn) =>
                result.status = "ok" /\ result.resource_type = r.resource_type

\* C12 as amended: an identifier built from the template of a record of the
\* registry is matched by that record's compiled pattern and arnmatch
\* succeeds on it; it gets that record's resource type when no earlier
\* pattern of the service matches it, and the type of the first pattern
\* that matches it otherwise.
C12_OwnTypeUnlessClaimedEarlier ==
    (Returned /\ WellFormed(arn) /\ Field(arn, 3) \in DOMAIN ARN_PATTERNS) =>
        LET svc == Field(arn, 3)
            first == Min(MatchingPatterns(arn))
        IN
        \A k \in 1..Len(ServiceRecords(svc)) :
            LET r == ServiceRecords(svc)[k]
            IN BuiltFrom(r, arn) =>
                /\ Match(ARN_PATTERNS[svc][k].regex, arn).ok
                /\ result.status = "ok"
                /\ first <= k
                /\ result.resource_type = ServiceRecords(svc)[first].resource_type
                /\ first = k => result.resource_type = r.resource_type

\* an identifier built from the second template of a service was matched
\* and got the type of that template
C12_Witness ==
    /\ result.status = "ok"
    /\ Len(ServiceRecords(result.aws_service)) >= 2
    /\ BuiltFrom(ServiceRecords(result.aws_service)[2], arn)
    /\ ~BuiltFrom(ServiceRecords(result.aws_service)[1], arn)
    /\ result.resource_type = ServiceRecords(result.aws_service)[2].resource_type

---------------------------------------------------------------------------
(* C13: deduplicate returns, for every template of its input, exactly one  *)
(* record: of the input records with that template, the first whose        *)
(* service is the service field of the template, and the first of them     *)
(* when none is; it returns nothing else.                                  *)

\* positions of the records of rs with template p, and of those among them
\* whose service is the third ':'-separated field of p
WithTemplate(rs, p) == {i \in 1..Len(rs) : rs[i].arn_pattern = p}
Authoritative(rs, p) == {i \in WithTemplate(rs, p) : rs[i].service = Field(p, 3)}

C13_Deduplicate ==
    pc = "deduplicated" =>
        /\ \A i \in 1..Len(scraped) :
              Cardinality(WithTemplate(resources, scraped[i].arn_pattern)) = 1
        /\ \A k \in 1..Len(resources) :
              LET p == resources[k].arn_pattern IN
              /\ WithTemplate(scraped, p) # {}
              /\ resources[k] =
                    IF Authoritative(scraped, p) # {}
                    THEN scraped[Min(Authoritative(scraped, p))]
                    ELSE scraped[Min(WithTemplate(scraped, p))]

\* three records with one template were deduplicated: the first is of
\* another service, the second and third of the template's service
C13_Witness ==
    /\ pc = "deduplicated"
    /\ Len(scraped) = 3
    /\ WithTemplate(scraped, scraped[1].arn_pattern) = {1, 2, 3}
    /\ Authoritative(scraped, scraped[1].arn_pattern) = {2, 3}
    /\ resources = <<scraped[2]>>

---------------------------------------------------------------------------
(* Vocabulary of the template claims *)

\* the template of the generation run over one record
Template == scraped[1].arn_pattern

\* the names between '${' and the next '}' of template t, left to right
Placeholders(t) ==
    LET ps == SelectSeq(VarScan(t, 1, ""), LAMBDA x : x.var) IN
    [i \in 1..Len(ps) |-> ps[i].text]

\* t names a placeholder twice
HasDuplicateName(t) ==
    \E i, j \in 1..Len(Placeholders(t)) : i # j /\ Placeholders(t)[i] = Placeholders(t)[j]

\* t has a '${' after which no '}' comes before the next '${' or the end
RECURSIVE HasUnclosed(_, _)
HasUnclosed(t, i) ==
    LET open == FindFrom(t, "${", i) IN
    IF open = 0 THEN FALSE
    ELSE LET close == FindFrom(t, "}", open + 2)
             again == FindFrom(t, "${", open + 2)
         IN \/ close = 0
            \/ (again # 0 /\ again < close)
            \/ HasUnclosed(t, close + 1)

\* the run has written a registry
RegistryWritten == pc \in {"generated", "import_failed"} /\ ARN_PATTERNS # <<>>

---------------------------------------------------------------------------
(* C14: a template that names a placeholder twice is refused at build      *)
(* time: the generation run over it never writes a registry, so no regex   *)
(* of that template is ever part of one.                                   *)
C14_DuplicateNameFailsBuild ==
    HasDuplicateName(Template) => ~RegistryWritten

---------------------------------------------------------------------------
(* C15: a template with a '${' that is never closed is refused: the        *)
(* generation run over it never writes a registry with a pattern of it,    *)
(* and no identifier is ever matched by such a pattern.                    *)
C15_UnclosedFailsBuild ==
    HasUnclosed(Template, 1) => (~RegistryWritten /\ result.status # "ok")

---------------------------------------------------------------------------
(* C16 *)

\* values given to the placeholders and texts put at the wildcard
CompileValues == {"app", "x", "app/x"}
WildTexts == {"", "x", "x/app", "1", "1/2"}

Valuations(t) ==
    LET names == {Placeholders(t)[i] : i \in 1..Len(Placeholders(t))} IN
    {v \in [names -> CompileValues \cup {"aws"}] :
        \A n \in names : (n = "Partition") <=> (v[n] = "aws")}

\* the template pieces ps with v[name] for every placeholder and w for
\* every '*'
RECURSIVE BuildPieces(_, _, _)
BuildPieces(ps, v, w) ==
    IF ps = <<>> THEN ""
    ELSE (IF Head(ps).var THEN v[Head(ps).text] ELSE StrReplace(Head(ps).text, "*", w))
         \o BuildPieces(Tail(ps), v, w)

Build(t, v, w) == BuildPieces(VarScan(t, 1, ""), v, w)

HasWildcard(t) == FindFrom(t, "*", 1) # 0

\* every placeholder of t is last or followed by literal text that starts
\* with ':' or '/', and every '*' is last or followed by '/'
Delimited(t) ==
    LET ps == VarScan(t, 1, "") IN
    /\ \A k \in 1..Len(ps) :
          ps[k].var => \/ k = Len(ps)
                       \/ (~ps[k + 1].var /\ Ch(ps[k + 1].text, 1) \in {":", "/"})
    /\ \A i \in 1..Len(t) :
          Ch(t, i) = "*" => (i = Len(t) \/ Ch(t, i + 1) = "/")

\* no value of v holds a '/'
SimpleValues(v) == \A n \in DOMAIN v : FindFrom(v[n], "/", 1) = 0

\* the attributes are the placeholders of t, in order, with the values v
CapturesNames(t) ==
    /\ Len(result.attributes) = Len(Placeholders(t))
    /\ \A i \in 1..Len(Placeholders(t)) : result.attributes[i].name = Placeholders(t)[i]
CapturesValues(t, v) ==
    \A i \in 1..Len(result.attributes) :
        result.attributes[i].value = v[result.attributes[i].name]

---------------------------------------------------------------------------
(* C17 *)

\* the template of the first pattern of the service that matches arn
MatchedTemplate ==
    ServiceRecords(Field(arn, 3))[Min(MatchingPatterns(arn))].arn_pattern

\* the number of attributes called n
Entries(n) ==
    Cardinality({i \in 1..Len(result.attributes) : result.attributes[i].name = n})

\* the names of the placeholders of the resource path of template t
PathPlaceholders(t) ==
    {Placeholders(ResourcePart(t))[i] : i \in 1..Len(Placeholders(ResourcePart(t)))}

AllPlaceholders(t) == {Placeholders(t)[i] : i \in 1..Len(Placeholders(t))}

EXAMPLE_BUCKET == "arn:aws:s3:::example-bucket-01"

---------------------------------------------------------------------------
(* C18: the attributes of a match are in the order of the placeholders of  *)
(* the matched template, each holding the text that stands at the place of *)
(* its placeholder in the identifier; the last attribute is that of the    *)
(* last placeholder.  The pattern's closing $ also stands before a line    *)
(* break that ends the identifier, which then belongs to no attribute.     *)

\* the attributes as a mapping from name to value
AttributeValue == [n \in {result.attributes[i].name : i \in 1..Len(result.attributes)} |->
                    (CHOOSE g \in {result.attributes[i] : i \in 1..Len(result.attributes)} :
                        g.name = n).value]

C18_TemplateOrder ==
    (Returned /\ result.status = "ok") =>
        LET t == MatchedTemplate
            ph == Placeholders(t)
        IN
        /\ Len(result.attributes) = Len(ph)
        /\ \A i \in 1..Len(ph) : result.attributes[i].name = ph[i]
        /\ result.attributes[Len(result.attributes)].name = ph[Len(ph)]
        /\ LET built == Build(t, AttributeValue, "")
           IN  arn \in {built, built \o "\n"}

\* an application load balancer was matched: five attributes, the last is
\* the LoadBalancerId although LoadBalancerName sorts after it
C18_Witness ==
    /\ result.status = "ok"
    /\ arn = ELB_HEAD \o "loadbalancer/app/app/loadbalancer"
    /\ Len(result.attributes) = 5
    /\ result.attributes[4] = [name |-> "LoadBalancerName", value |-> "app"]
    /\ result.attributes[5] = [name |-> "LoadBalancerId", value |-> "loadbalancer"]

---------------------------------------------------------------------------
(* C19: whatever the caller does to the lists and the mapping of the ARNs  *)
(* it was handed, the registry and the client table stay what the          *)
(* generation run wrote, and a call returns the resource_type and          *)
(* resource_types, and a first read of aws_sdk_services the clients, that  *)
(* the generated tables give for the identifier.                           *)
C19_ResultOwnsItsData ==
    pc = "generated" =>
        /\ ARN_PATTERNS = generate(resources)
        /\ AWS_SDK_SERVICES = sdk_mapping
        /\ (Returned /\ result.status = "ok") =>
              LET entry == generate(resources)[result.aws_service]
                               [FirstMatch(generate(resources)[result.aws_service], 1, arn)]
              IN /\ result.resource_types = entry.type_names
                 /\ result.resource_type = entry.type_names[1]

---------------------------------------------------------------------------
(* Callers running at the same time *)

\* the positions at which caller c holds the ARN its call returned
HoldsARN(c) == pc[c].at \in {"returned", "read_id", "read_name", "read_services", "done"}

\* what a call of arnmatch(a) and the reads of the properties give to a
\* caller that runs alone on the generated tables
Alone(a) ==
    LET r == arnmatch(a) IN
    IF r.status # "ok" THEN r
    ELSE [r EXCEPT !.cache =
            [resource_id |-> <<resource_id(r)>>,
             resource_name |-> <<resource_name(r)>>,
             aws_sdk_services |-> <<aws_sdk_services(r, AWS_SDK_SERVICES)>>,
             aws_sdk_service |->
                <<aws_sdk_service(r, AWS_SDK_SERVICES, AWS_SDK_RESOURCE_OVERRIDES)>>]]

\* the value a caller has read so far is the value read alone
ReadAsAlone(c, alone, property) ==
    result[c].cache[property] \in {NotCached, alone.cache[property]}

(* C20: in every interleaving of the steps of the callers, the ARN or the  *)
(* error a call ends with is the one arnmatch gives to a caller running    *)
(* alone, every property a caller has read has the value it has for a      *)
(* caller running alone, and the registry and the client tables are the    *)
(* ones the generation run wrote.                                          *)
C20_ConcurrentCallersAsAlone ==
    /\ ARN_PATTERNS = ConcPatterns
    /\ AWS_SDK_SERVICES = ConcSdkMapping
    /\ AWS_SDK_RESOURCE_OVERRIDES = SDK_RESOURCE_OVERRIDES
    /\ \A c \in Callers :
          LET alone == Alone(arn[c]) IN
          /\ pc[c].at = "raised" => result[c] = alone
          /\ HoldsARN(c) =>
                /\ [result[c] EXCEPT !.cache = EmptyCache]
                      = [alone EXCEPT !.cache = EmptyCache]
                /\ ReadAsAlone(c, alone, "resource_id")
                /\ ReadAsAlone(c, alone, "resource_name")
                /\ ReadAsAlone(c, alone, "aws_sdk_services")
                /\ ReadAsAlone(c, alone, "aws_sdk_service")
          /\ pc[c].at = "done" => result[c] = alone

\* one caller has read every property of an application load balancer
\* while another, on the same service, is past the first pattern of its loop
C20_Witness ==
    \E c, d \in Callers :
        /\ c # d
        /\ pc[c].at = "done"
        /\ result[c].resource_type = "loadbalancer/app/"
        /\ result[c].cache.aws_sdk_service = <<Some("elbv2")>>
        /\ pc[d] = At("loop", 2)
        /\ arn[d] = CONC_HEAD \o "loadbalancer/n"

---------------------------------------------------------------------------
(* The output of process *)

\* the lists that hold the records of q in another order
Reorderings(q) ==
    {[i \in 1..Len(q) |-> q[f[i]]] :
        f \in {g \in [1..Len(q) -> 1..Len(q)] :
                  \A i, j \in 1..Len(q) : i # j => g[i] # g[j]}}

\* the first position in rs of a record with template p, 0 when none
PosOf(rs, p) ==
    LET at == {i \in 1..Len(rs) : rs[i].arn_pattern = p} IN
    IF at = {} THEN 0 ELSE Min(at)

SameKey(a, b) == sort_key(a) = sort_key(b)

\* template p comes before template q in rs
Before(rs, p, q) == PosOf(rs, p) < PosOf(rs, q)

\* the pairs of positions of the processed list that hold two distinct
\* templates of one service
TemplatePairs ==
    {<<i, j>> \in (1..Len(resources)) \X (1..Len(resources)) :
        /\ resources[i].arn_service = resources[j].arn_service
        /\ resources[i].arn_pattern # resources[j].arn_pattern}

\* C21 as stated: two distinct templates of one service never have equal
\* sort keys, and process puts them in the same relative order for every
\* order of the input records.
C21_TotalOrder ==
    pc = "processed" =>
        LET keys == [i \in 1..Len(resources) |-> sort_key(resources[i])]
            outs == {process(q) : q \in Reorderings(scraped)}
        IN
        \A ij \in TemplatePairs :
            LET A == resources[ij[1]]
                B == resources[ij[2]]
            IN /\ keys[ij[1]] # keys[ij[2]]
               /\ \A out \in outs :
                     Before(out, A.arn_pattern, B.arn_pattern)
                        <=> Before(resources, A.arn_pattern, B.arn_pattern)

\* C21 as amended: the ordering is total up to equal sort keys.  Two
\* templates of one service with different sort keys are in the order of
\* their keys, the same for every order of the input records; two templates
\* with equal sort keys have the same pieces apart from the names of the
\* placeholders, and are in the order in which the sort received them,
\* which for two scraped rows is the order of the input.
C21_TotalUpToEqualKeys ==
    pc = "processed" =>
        LET keys == [i \in 1..Len(resources) |-> sort_key(resources[i])]
            outs == {process(q) : q \in Reorderings(scraped)}
        IN
        \A ij \in TemplatePairs :
            LET A == resources[ij[1]]
                B == resources[ij[2]]
            IN IF keys[ij[1]] # keys[ij[2]]
               THEN /\ Before(resources, A.arn_pattern, B.arn_pattern)
                         <=> KeyLess(keys[ij[1]], keys[ij[2]])
                    /\ \A out \in outs :
                          Before(out, A.arn_pattern, B.arn_pattern)
                             <=> Before(resources, A.arn_pattern, B.arn_pattern)
               ELSE /\ NormPieces(VarScan(A.arn_pattern, 1, ""))
                         = NormPieces(VarScan(B.arn_pattern, 1, ""))
                    /\ (PosOf(scraped, A.arn_pattern) # 0 /\ PosOf(scraped, B.arn_pattern) # 0)
                         => (Before(resources, A.arn_pattern, B.arn_pattern)
                                <=> Before(scraped, A.arn_pattern, B.arn_pattern))

\* the two bucket templates, equal but for the name of the placeholder,
\* processed from the list that holds the bucket-id row first
C21_Witness ==
    /\ pc = "processed"
    /\ scraped = <<S3_BUCKET_ID, S3_BUCKET>>
    /\ SameKey(S3_BUCKET_ID, S3_BUCKET)
    /\ Before(resources, S3_BUCKET_ID.arn_pattern, S3_BUCKET.arn_pattern)
    /\ Before(process(<<S3_BUCKET, S3_BUCKET_ID>>), S3_BUCKET.arn_pattern, S3_BUCKET_ID.arn_pattern)

\* the header of a sort key: service, region and account as the key holds
\* them
KeyHeader(r) == LET key == sort_key(r) IN <<key.service, key.region, key.account>>

\* header h stands before header g
HeaderLess(h, g) ==
    IF h[1] # g[1] THEN StrLess(h[1], g[1])
    ELSE IF h[2] # g[2] THEN StrLess(h[2], g[2])
    ELSE StrLess(h[3], g[3])

\* C26: of two processed templates with the same service, region and
\* account the one with more segments in its resource path stands first;
\* two templates of one service that differ in region or account stand in
\* the order of these fields, whatever their segment counts.
C26_MoreSegmentsFirst ==
    pc = "processed" =>
        LET header == [i \in 1..Len(resources) |-> KeyHeader(resources[i])]
            count == [i \in 1..Len(resources) |-> Len(SegmentsOf(resources[i]))]
        IN
        \A i, j \in 1..Len(resources) :
            /\ (header[i] = header[j] /\ count[i] > count[j]) => i < j
            /\ (header[i][1] = header[j][1] /\ header[i] # header[j]
                   /\ HeaderLess(header[i], header[j])) => i < j

\* the object template, two segments, was handed in after the bucket
\* template, one segment, and stands before it
C26_Witness ==
    /\ pc = "processed"
    /\ scraped = <<S3_BUCKET, S3_OBJECT>>
    /\ KeyHeader(S3_OBJECT) = KeyHeader(S3_BUCKET)
    /\ Len(SegmentsOf(S3_OBJECT)) = 2
    /\ Len(SegmentsOf(S3_BUCKET)) = 1
    /\ Before(resources, S3_OBJECT.arn_pattern, S3_BUCKET.arn_pattern)

\* a segment that is a placeholder or the wildcard
IsSentinelSegment(seg) == StartsWith(seg, "${") \/ seg = "*"

\* a segment of literal text only
IsLiteralSegment(seg) == ~StartsWith(seg, "${") /\ FindFrom(seg, "*", 1) = 0

\* the first position at which the segment lists a and b differ, 0 if none
FirstDifference(a, b) ==
    LET at == {k \in 1..Min({Len(a), Len(b)}) : a[k] # b[k]} IN
    IF at = {} THEN 0 ELSE Min(at)

\* C27: of two processed templates with the same service, region and
\* account and the same number of segments, the one that has a literal
\* segment where the other has a placeholder or the wildcard, at the first
\* segment in which they differ, stands first.
C27_LiteralBeforeSentinel ==
    pc = "processed" =>
        LET header == [i \in 1..Len(resources) |-> KeyHeader(resources[i])]
            segments == [i \in 1..Len(resources) |-> SegmentsOf(resources[i])]
        IN
        \A i, j \in 1..Len(resources) :
            LET A == segments[i]
                B == segments[j]
                k == FirstDifference(A, B)
            IN (/\ header[i] = header[j]
                /\ Len(A) = Len(B)
                /\ k # 0
                /\ IsLiteralSegment(A[k])
                /\ IsSentinelSegment(B[k])) => i < j

\* the third ':'-separated field of template t, "" when t has fewer fields
ThirdField(t) ==
    LET parts == StrSplit(t, ":", -1) IN
    IF Len(parts) >= 3 THEN parts[3] ELSE ""

\* C28: every record that process returns has as arn_service the third
\* field of the arn_pattern it is returned with, the pattern of the
\* override when an override replaced the scraped one.
C28_ServiceOfFinalPattern ==
    pc = "processed" =>
        \A i \in 1..Len(resources) :
            resources[i].arn_service = ThirdField(resources[i].arn_pattern)

\* C29: no two records that process returns have the same arn_pattern,
\* also when a scraped row holds a template of PATTERN_INCLUDES.
C29_NoPatternTwice ==
    pc = "processed" =>
        \A i, j \in 1..Len(resources) :
            resources[i].arn_pattern = resources[j].arn_pattern => i = j

---------------------------------------------------------------------------
(* The generation run *)

\* nothing of arn_patterns.py has been written
NothingWritten ==
    /\ ARN_PATTERNS = <<>>
    /\ AWS_SDK_SERVICES = <<>>
    /\ AWS_SDK_RESOURCE_OVERRIDES = <<>>

\* the services of the processed records that no client is known for
ServicesWithoutClient ==
    {resources[i].arn_service : i \in
        {i \in 1..Len(resources) : ~sdk_clients_of(resources[i].arn_service).found}}

\* the processed records of services with more than one client whose
\* resource type is no override prefix and starts with none followed by '/'
UncoveredRecords ==
    {i \in 1..Len(resources) :
        LET svc == resources[i].arn_service
            type == resources[i].resource_type
            prefixes == IF svc \in DOMAIN SDK_RESOURCE_OVERRIDES
                        THEN {SDK_RESOURCE_OVERRIDES[svc][k][1] :
                                 k \in 1..Len(SDK_RESOURCE_OVERRIDES[svc])}
                        ELSE {}
        IN /\ svc \in DOMAIN sdk_mapping
           /\ Len(sdk_mapping[svc]) > 1
           /\ \A prefix \in prefixes :
                 type # prefix /\ ~StartsWith(type, prefix \o "/")}

(* C22: in every step of a generation run that writes arn_patterns.py,     *)
(* the run is past the validation, every processed record is compiled      *)
(* into the registry that is written, every service has its clients and    *)
(* no record is uncovered; a run that aborted, and a run that has not      *)
(* reached generate, has written nothing.                                  *)
C22_WrittenOnlyAfterValidation ==
    /\ [](pc # "generated" => NothingWritten)
    /\ [](pc = "aborted" => (ServicesWithoutClient # {} \/ UncoveredRecords # {}))
    /\ [][tables' # tables =>
            /\ pc = "validated" /\ pc' = "generated"
            /\ ServicesWithoutClient = {}
            /\ UncoveredRecords = {}
            /\ \A svc \in {resources[i].arn_service : i \in 1..Len(resources)} :
                  /\ svc \in DOMAIN ARN_PATTERNS'
                  /\ Len(ARN_PATTERNS'[svc]) = Len(ServiceRecords(svc))
                  /\ \A i \in 1..Len(ServiceRecords(svc)) :
                        ARN_PATTERNS'[svc][i].regex
                            = pattern_to_regex(ServiceRecords(svc)[i].arn_pattern)]_vars

\* a run whose validation raised: the client mapping is built, a record of
\* s3 is covered by no override, and nothing is written
C22_Witness ==
    /\ pc = "aborted"
    /\ sdk_mapping # <<>>
    /\ UncoveredRecords # {}
    /\ NothingWritten

---------------------------------------------------------------------------
(* Literal text, field classes and the last placeholder *)

\* C23: an identifier that arnmatch matches against a template without
\* wildcard is the template with each placeholder replaced by the value
\* captured for it: every literal character of the template stands in the
\* identifier as it is, nothing precedes the first and nothing follows the
\* last token.
C23_LiteralsAndAnchors ==
    (Returned /\ result.status = "ok" /\ ~HasWildcard(MatchedTemplate)) =>
        Build(MatchedTemplate, AttributeValue, "") = arn

\* the services of the registry that have more than one client
MultiClientServices ==
    {svc \in DOMAIN ARN_PATTERNS :
        svc \in DOMAIN AWS_SDK_SERVICES /\ Len(AWS_SDK_SERVICES[svc]) > 1}

\* aws_sdk_service of a result of service svc with the type names of the
\* i-th pattern registered under svc
ClientOfPattern(svc, i) ==
    aws_sdk_service(MakeARN("aws", svc, "", "", ARN_PATTERNS[svc][i].type_names, <<>>),
                    AWS_SDK_SERVICES, AWS_SDK_RESOURCE_OVERRIDES)

\* C30: validate_sdk_overrides raises exactly when a processed record of a
\* service with more than one client has a resource type that no override
\* prefix of the service equals or, followed by '/', begins; in a registry
\* that was written, aws_sdk_service of a result with the first type name
\* of any pattern of such a service is one of the clients of the service,
\* and so is every aws_sdk_service read from a returned result.
C30_ValidationCoversLookups ==
    /\ [][pc = "mapped" =>
            /\ (pc' = "aborted") <=> (UncoveredRecords # {})
            /\ (pc' = "validated") <=> (UncoveredRecords = {})]_vars
    /\ [](pc = "generated" =>
            \A svc \in MultiClientServices :
                \A i \in 1..Len(ARN_PATTERNS[svc]) :
                    /\ ~ClientOfPattern(svc, i).none
                    /\ \E k \in 1..Len(AWS_SDK_SERVICES[svc]) :
                          AWS_SDK_SERVICES[svc][k] = ClientOfPattern(svc, i).client)
    /\ []((result.status = "ok" /\ result.aws_service \in MultiClientServices
            /\ result.cache.aws_sdk_service # NotCached) =>
                ~result.cache.aws_sdk_service[1].none)

\* validation passed with the application load balancer template among the
\* records, the service has two clients, and the client read from a matched
\* application load balancer is elbv2
C30_Witness ==
    /\ pc = "generated"
    /\ \E i \in 1..Len(scraped) : scraped[i] = ELB_APP
    /\ AWS_SDK_SERVICES["elasticloadbalancing"] = <<"elb", "elbv2">>
    /\ result.status = "ok"
    /\ result.resource_type = "loadbalancer/app/"
    /\ result.cache.aws_sdk_service = <<Some("elbv2")>>

\* v is made of word characters and hyphens
IsWordOrHyphen(v) ==
    \A i \in 1..Len(v) : Ch(v, i) = "-" \/ FindFrom(WordChars, Ch(v, i), 1) # 0

\* v is twelve digits
IsAccountNumber(v) ==
    Len(v) = 12 /\ \A i \in 1..Len(v) : FindFrom(Digits, Ch(v, i), 1) # 0

\* every value captured for Partition, Region and Account is of its class
NarrowValues ==
    \A i \in 1..Len(result.attributes) :
        LET g == result.attributes[i] IN
        /\ g.name = "Partition" => (g.value # "" /\ IsWordOrHyphen(g.value))
        /\ g.name = "Region" => IsWordOrHyphen(g.value)
        /\ g.name = "Account" => IsAccountNumber(g.value)

\* the fifth ':'-separated field of template t is ${Account}
AccountField(t) == WellFormed(t) /\ Field(t, 5) = "${Account}"

\* the four fields of template t before its account field hold literal text
\* and the placeholders Partition and Region only, so that none of them can
\* take a ':' of the identifier
PlainHeader(t) ==
    /\ WellFormed(t)
    /\ LET ps == VarScan(SubSeq(t, 1, NthColon(t, 4)), 1, "") IN
       \A k \in 1..Len(ps) :
          IF ps[k].var THEN ps[k].text \in {"Partition", "Region"}
          ELSE ~HasWildcard(ps[k].text)

\* the call was made with a six-field identifier of a registered service
\* whose account field is not twelve digits
BadAccountCall ==
    /\ Returned
    /\ WellFormed(arn)
    /\ Field(arn, 3) \in DOMAIN ARN_PATTERNS
    /\ ~IsAccountNumber(Field(arn, 5))

NoPatternMatched ==
    result.status = "error" /\ result.message = "No pattern matched ARN: " \o arn

\* C24 as stated: the values captured for Partition, Region and Account are
\* of their narrow classes wherever the placeholder stands, no template with
\* ${Account} as account field matches an identifier whose account field is
\* not twelve digits, and arnmatch of such an identifier of a registered
\* service fails with no-pattern-matched.
C24_BadAccountNeverMatched ==
    /\ (Returned /\ result.status = "ok") =>
            (NarrowValues /\ (~IsAccountNumber(Field(arn, 5)) => ~AccountField(MatchedTemplate)))
    /\ BadAccountCall => NoPatternMatched

\* C24 amended: the values captured for Partition, Region and Account are of
\* their narrow classes wherever the placeholder stands; an identifier whose
\* account field is not twelve digits is matched by no template that has
\* ${Account} as account field after a header of literals, Partition and
\* Region; arnmatch fails with no-pattern-matched when every template of the
\* service is of that kind, and otherwise returns the first other template
\* that matches.
C24_NarrowClasses ==
    /\ (Returned /\ result.status = "ok") => NarrowValues
    /\ BadAccountCall =>
          LET strict(t) == AccountField(t) /\ PlainHeader(t)
              recs == ServiceRecords(Field(arn, 3))
          IN
          /\ result.status = "ok" => ~strict(MatchedTemplate)
          /\ (\A i \in 1..Len(recs) : strict(recs[i].arn_pattern)) => NoPatternMatched

\* an eleven-digit account: the access point template does not match, and
\* with no other template registered the call fails
C24_Witness ==
    /\ BadAccountCall
    /\ scraped = <<S3_ACCESSPOINT>>
    /\ arn = "arn:aws:s3:us-east-1:01234567890:accesspoint/a"
    /\ NoPatternMatched

\* the last token of template t is a placeholder other than Partition,
\* Region and Account
EndsInFreePlaceholder(t) ==
    LET ps == VarScan(t, 1, "") IN
    ps # <<>> /\ ps[Len(ps)].var /\ ps[Len(ps)].text \notin STANDARD_GROUPS

LastValue == result.attributes[Len(result.attributes)].value

\* C25 as stated: a last placeholder other than Partition, Region and
\* Account holds the identifier from its place to the end, and no attribute
\* of a match is the empty string.
C25_WholeRemainderNeverEmpty ==
    (Returned /\ result.status = "ok") =>
        /\ EndsInFreePlaceholder(MatchedTemplate) => EndsWith(arn, LastValue)
        /\ \A i \in 1..Len(result.attributes) : result.attributes[i].value # ""

\* C25 amended: a last placeholder other than Partition, Region and Account
\* holds the identifier from its place to the end, '/' and ':' included, or
\* to the line break that ends the identifier; its value is not empty and,
\* as every value, holds no line break; only Region can be the empty string.
C25_LastPlaceholderTakesRemainder ==
    (Returned /\ result.status = "ok") =>
        /\ EndsInFreePlaceholder(MatchedTemplate) =>
              (EndsWith(arn, LastValue) \/ EndsWith(arn, LastValue \o "\n"))
        /\ \A i \in 1..Len(result.attributes) :
              LET g == result.attributes[i] IN
              /\ g.name # "Region" => g.value # ""
              /\ FindFrom(g.value, "\n", 1) = 0

\* the log group of the test: the name with its '/' is the value
C25_Witness ==
    /\ Returned
    /\ arn = LOGS_HEAD \o "/aws/lambda/function-logs"
    /\ result.status = "ok"
    /\ MatchedTemplate = LOGS_GROUP.arn_pattern
    /\ LastValue = "/aws/lambda/function-logs"

====
